---- MODULE Spec2Model ----
(***************************************************************************)
(* Curation and enrichment accounting of the company research agent:       *)
(*   backend/nodes/curator.py               Curator                        *)
(*   backend/nodes/researchers/company.py   CompanyAnalyzer                *)
(*                                                                         *)
(* Encodings.  A Python dict is a sequence of <<key, value>> pairs in      *)
(* insertion order.  A relevance score 0.37 is the integer 37 (hundredths).*)
(* A loosely typed value is a record [kind, val]: kind says which Python   *)
(* type the value has, val carries its number.  A URL string is the        *)
(* sequence of its lexical tokens, e.g. <<"http", "://", "a.com/x", "?",   *)
(* "ref=1">>.  A raw text answer is the sequence of its characters.        *)
(***************************************************************************)
EXTENDS Integers, Sequences, FiniteSets, TLC

VARIABLES
    websocket_manager,  \* "attached" when state has websocket_manager and job_id, else "none"
    data,               \* [Categories -> dict]   state['<category>_data']
    curated,            \* [Categories -> dict]   state['curated_<category>_data'] (<<>>: absent or empty)
    employee_count,     \* dict key -> value      state['employee_count']
    Company_Count,      \* state['Company_Count']
    stateKeys,          \* which of the optional keys are present in state
    enrichment_counts,  \* state['enrichment_counts'] (written by the company analyzer)
    enrichmentCounts,   \* state['enrichmentCounts']  (written by the curator)
    pc,                 \* position of Curator.run / curate_data
    preserved_data,     \* curate_data's local preserved_data
    curation_tasks,     \* curate_data's local curation_tasks
    doc_counts,         \* curate_data's local doc_counts, as a dict
    exceptions,         \* the exceptions raised during the pass, in order: [at, category, escaped]
    sent,               \* the notifications the progress channel has taken, in order
    call                \* a direct call of one method: its arguments and its result

vars == <<websocket_manager, data, curated, employee_count, Company_Count, stateKeys,
          enrichment_counts, enrichmentCounts, pc, preserved_data, curation_tasks,
          doc_counts, exceptions, sent, call>>

stateVars == <<websocket_manager, data, curated, employee_count, Company_Count,
               stateKeys, enrichment_counts, enrichmentCounts>>

passVars == <<pc, preserved_data, curation_tasks, doc_counts, exceptions, sent>>

(***************************************************************************)
(* Program constants                                                       *)
(***************************************************************************)
relevance_threshold == 40

MaxCurated == 30

MinEmployees == 1

MaxEmployees == 10000000

\* data_types of curate_data, in its iteration order
Categories == <<"financial", "news", "industry", "company">>

CategorySet == {Categories[i] : i \in 1..Len(Categories)}

(***************************************************************************)
(* Generic helpers on sequences and dicts                                  *)
(***************************************************************************)
Range(s) == {s[i] : i \in 1..Len(s)}

Min(a, b) == IF a <= b THEN a ELSE b

Take(s, n) == SubSeq(s, 1, Min(n, Len(s)))

Keys(d) == [i \in 1..Len(d) |-> d[i][1]]

Values(d) == [i \in 1..Len(d) |-> d[i][2]]

HasKey(d, k) == \E i \in 1..Len(d) : d[i][1] = k

Get(d, k) == d[CHOOSE i \in 1..Len(d) : d[i][1] = k][2]

\* d[k] = v: an existing key keeps its place, a new key goes last
Put(d, k, v) ==
    IF HasKey(d, k)
    THEN [i \in 1..Len(d) |-> IF d[i][1] = k THEN <<k, v>> ELSE d[i]]
    ELSE Append(d, <<k, v>>)

\* mutant: the total is the number of entries
SumValues_Count(d) == Len(d)

RECURSIVE SumValues(_)
SumValues(d) == IF d = <<>> THEN 0 ELSE d[1][2].val + SumValues(Tail(d))

(***************************************************************************)
(* Loosely typed values                                                    *)
(***************************************************************************)
Num(v) == [kind |-> "num", val |-> v]

\* a value no field holds: the key is missing from the dict
Missing == [kind |-> "missing", val |-> 0]

\* float(x) of curator.py line 43: a number or a numeric string converts,
\* None raises TypeError and any other text raises ValueError
Float(x) ==
    CASE x.kind \in {"num", "str"} -> [ok |-> TRUE, val |-> x.val]
      [] OTHER -> [ok |-> FALSE, val |-> 0]

(***************************************************************************)
(* Documents                                                               *)
(***************************************************************************)
NoEvaluation == [attached |-> FALSE, overall_score |-> 0]

NoUrl == <<>>

Document(title, score, emp) ==
    [title |-> title, url |-> NoUrl, doc_type |-> "unknown", score |-> score,
     employee_count |-> emp, is_dict |-> TRUE, evaluation |-> NoEvaluation]

\* a record of the batch that is no mapping (a string, a list, None)
Malformed(title) ==
    [title |-> title, url |-> NoUrl, doc_type |-> "unknown", score |-> Missing,
     employee_count |-> Missing, is_dict |-> FALSE, evaluation |-> NoEvaluation]

\* doc.get('score', 0)
ScoreOf(doc) == IF doc.score.kind = "missing" THEN Num(0) ELSE doc.score

(***************************************************************************)
(* Curator.evaluate_documents                                              *)
(***************************************************************************)
\* list.sort(key=overall_score, reverse=True): stable, equal scores keep
\* their order.  SortInsert puts d behind every element scoring >= d.
\* mutant: d goes before the elements it ties with
RECURSIVE SortInsert_TiesFirst(_, _)
SortInsert_TiesFirst(sorted, d) ==
    IF sorted = <<>> THEN <<d>>
    ELSE IF Head(sorted).evaluation.overall_score > d.evaluation.overall_score
         THEN <<Head(sorted)>> \o SortInsert_TiesFirst(Tail(sorted), d)
         ELSE <<d>> \o sorted

RECURSIVE SortInsert(_, _)
SortInsert(sorted, d) ==
    IF sorted = <<>> THEN <<d>>
    ELSE IF Head(sorted).evaluation.overall_score >= d.evaluation.overall_score
         THEN <<Head(sorted)>> \o SortInsert(Tail(sorted), d)
         ELSE <<d>> \o sorted

RECURSIVE SortByScore(_)
SortByScore(docs) ==
    IF docs = <<>> THEN <<>>
    ELSE SortInsert(SortByScore(SubSeq(docs, 1, Len(docs) - 1)), docs[Len(docs)])

\* the threshold test of line 44
PassesThreshold(tavily_score) == tavily_score >= relevance_threshold

\* The loop of lines 41-75 from document i on.  kept: evaluated_docs so far.
\* failKept: the position in docs of the document whose document_kept
\* delivery raises (0: none does).  Result: [aborted, docs, notified];
\* aborted is the outer except of lines 76-78, notified the documents whose
\* document_kept delivery was made.
RECURSIVE EvaluateLoop(_, _, _, _, _)
EvaluateLoop(docs, i, kept, attached, failKept) ==
    IF i > Len(docs) THEN [aborted |-> FALSE, docs |-> kept, notified |-> kept]
    ELSE LET doc == docs[i] IN
         IF ~doc.is_dict
         THEN \* doc.get raises AttributeError: not a ValueError or TypeError
              [aborted |-> TRUE, docs |-> <<>>, notified |-> kept]
         ELSE LET f == Float(ScoreOf(doc)) IN
              IF ~f.ok
              THEN EvaluateLoop(docs, i + 1, kept, attached, failKept)
              ELSE IF PassesThreshold(f.val)
                   THEN LET evaluated_doc ==
                                [doc EXCEPT !.evaluation =
                                    [attached |-> TRUE, overall_score |-> f.val]]
                        IN  IF attached /\ failKept = i
                            THEN [aborted |-> TRUE, docs |-> <<>>, notified |-> kept]
                            ELSE EvaluateLoop(docs, i + 1, Append(kept, evaluated_doc),
                                              attached, failKept)
                   ELSE EvaluateLoop(docs, i + 1, kept, attached, failKept)

\* failStart: the "Evaluating documents" delivery of lines 23-31 raises; it
\* is outside every try, so the exception leaves evaluate_documents.
evaluate_documents(docs, attached, failStart, failKept) ==
    IF attached /\ failStart
    THEN [outcome |-> "raised", aborted |-> FALSE, docs |-> <<>>, notified |-> <<>>]
    ELSE IF docs = <<>>
         THEN [outcome |-> "returned", aborted |-> FALSE, docs |-> <<>>, notified |-> <<>>]
    ELSE LET r == EvaluateLoop(docs, 1, <<>>, attached, failKept)
             notified == IF attached THEN r.notified ELSE <<>>
         IN  IF r.aborted
             THEN [outcome |-> "returned", aborted |-> TRUE, docs |-> <<>>,
                   notified |-> notified]
             ELSE [outcome |-> "returned", aborted |-> FALSE, docs |-> SortByScore(r.docs),
                   notified |-> notified]

(***************************************************************************)
(* Values of the variables a specification does not use                    *)
(***************************************************************************)
EmptyData == [c \in CategorySet |-> <<>>]

NoSnapshot == [absent |-> TRUE]

NoPreserved == [employee_count |-> <<>>, Company_Count |-> 0, enrichment_counts |-> <<>>]

NoCall == [fn |-> "none"]

StateIsEmpty ==
    /\ data = EmptyData
    /\ curated = EmptyData
    /\ employee_count = <<>>
    /\ Company_Count = 0
    /\ stateKeys = {}
    /\ enrichment_counts = <<>>
    /\ enrichmentCounts = NoSnapshot

PassIsIdle ==
    /\ pc = "idle"
    /\ preserved_data = NoPreserved
    /\ curation_tasks = <<>>
    /\ doc_counts = <<>>
    /\ exceptions = <<>>
    /\ sent = <<>>

(***************************************************************************)
(* SpecEval: direct calls of Curator.evaluate_documents on every batch of  *)
(* at most MaxBatch documents, with and without a progress channel         *)
(***************************************************************************)
MaxBatch == 3

\* the score a search result may carry: numbers around the threshold, the
\* numeric string "0.9", the text "high", None, or no score at all
ScoreChoices ==
    {Num(39), Num(40), Num(90), [kind |-> "str", val |-> 90],
     [kind |-> "text", val |-> 0], [kind |-> "none", val |-> 0], Missing}

\* the documents of a batch are told apart by their titles 1, 2, ...
BatchChoices(n) ==
    {[i \in 1..n |-> IF f[i].kind = "malformed" THEN Malformed(i)
                     ELSE Document(i, f[i], Missing)] :
        f \in [1..n -> ScoreChoices \cup {[kind |-> "malformed", val |-> 0]}]}

Batches == UNION {BatchChoices(n) : n \in 0..MaxBatch}

InitEval ==
    /\ websocket_manager \in {"none", "attached"}
    /\ StateIsEmpty
    /\ PassIsIdle
    /\ \E docs \in Batches :
          call = [fn |-> "evaluate_documents", docs |-> docs, status |-> "pending",
                  out |-> <<>>, failStart |-> FALSE, failKept |-> 0]

\* one call of evaluate_documents(state, docs, context); the channel decides
\* which deliveries raise
EvaluateCall ==
    /\ call.status = "pending"
    /\ \E failStart \in (IF websocket_manager = "attached" THEN BOOLEAN ELSE {FALSE}),
          failKept \in (IF websocket_manager = "attached" THEN 0..Len(call.docs) ELSE {0}) :
          LET r == evaluate_documents(call.docs, websocket_manager = "attached",
                                      failStart, failKept)
          IN  call' = [call EXCEPT !.status = r.outcome, !.out = r.docs,
                                   !.failStart = failStart, !.failKept = failKept]
    /\ UNCHANGED <<stateVars, passVars>>

NextEval == EvaluateCall

SpecEval == InitEval /\ [][NextEval]_vars

\* the score of a document of the batch is numeric (float() accepts it)
IsNumericScore(doc) == doc.is_dict /\ doc.score.kind \in {"num", "str"}

InOutput(doc) == \E j \in 1..Len(call.out) : call.out[j].title = doc.title

AllMappings(docs) == \A i \in 1..Len(docs) : docs[i].is_dict

\* C1: evaluate_documents keeps a document if and only if its score is
\* numeric and >= 0.4, for every batch of documents (mappings).
C1_KeepsIffAtLeastThreshold ==
    (call.status = "returned" /\ AllMappings(call.docs)) =>
        \A i \in 1..Len(call.docs) :
            InOutput(call.docs[i]) <=>
                (IsNumericScore(call.docs[i]) /\ call.docs[i].score.val >= 40)

\* C1, what the code does: the equivalence holds for every call whose
\* deliveries all succeed; after a failed delivery nothing is kept.
C1_KeepsWhenDelivered ==
    (call.status = "returned" /\ AllMappings(call.docs)) =>
        \A i \in 1..Len(call.docs) :
            InOutput(call.docs[i]) <=>
                /\ IsNumericScore(call.docs[i]) /\ call.docs[i].score.val >= 40
                /\ ~(call.failKept > 0 /\ \E k \in 1..Len(call.docs) :
                        /\ k = call.failKept
                        /\ IsNumericScore(call.docs[k])
                        /\ call.docs[k].score.val >= 40)

InputPosition(doc) == CHOOSE i \in 1..Len(call.docs) : call.docs[i].title = doc.title

\* C2: the output of evaluate_documents is sorted by overall_score
\* descending, and surviving documents with equal scores keep the relative
\* order they had in the input batch.
C2_SortedDescendingStable ==
    call.status = "returned" =>
        \A i, j \in 1..Len(call.out) :
            i < j =>
                /\ call.out[i].evaluation.overall_score >= call.out[j].evaluation.overall_score
                /\ (call.out[i].evaluation.overall_score = call.out[j].evaluation.overall_score
                        => InputPosition(call.out[i]) < InputPosition(call.out[j]))

\* C2 witness: a returned batch in which the sort moved a document forward
\* and two survivors tie.
C2_Witness ==
    /\ call.status = "returned"
    /\ \E i, j \in 1..Len(call.out) :
          /\ i < j
          /\ call.out[i].evaluation.overall_score = call.out[j].evaluation.overall_score
    /\ \E i, j \in 1..Len(call.out) :
          /\ i < j
          /\ InputPosition(call.out[i]) > InputPosition(call.out[j])

(***************************************************************************)
(* CompanyAnalyzer._validate_and_process_employee_count                    *)
(***************************************************************************)
Digits == {"0", "1", "2", "3", "4", "5", "6", "7", "8", "9"}

DigitValue(c) ==
    CASE c = "0" -> 0 [] c = "1" -> 1 [] c = "2" -> 2 [] c = "3" -> 3 [] c = "4" -> 4
      [] c = "5" -> 5 [] c = "6" -> 6 [] c = "7" -> 7 [] c = "8" -> 8 [] c = "9" -> 9

\* raw_count.split('(')[0]: the text before the first '('
RECURSIVE SplitParenHead(_)
SplitParenHead(text) ==
    IF text = <<>> \/ Head(text) = "(" THEN <<>>
    ELSE <<Head(text)>> \o SplitParenHead(Tail(text))

IsDigit(c) == c \in Digits

\* re.sub(r'[^\d]', '', text): (strip() only removes characters the
\* substitution removes anyway)
RemoveNonDigits(text) == SelectSeq(text, IsDigit)

\* int(clean_count) for a non-empty string of digits
RECURSIVE ParseInt(_)
ParseInt(digits) ==
    IF digits = <<>> THEN 0
    ELSE 10 * ParseInt(SubSeq(digits, 1, Len(digits) - 1)) + DigitValue(digits[Len(digits)])

\* mutant: both ends of the range excluded
InEmployeeRange_Exclusive(n) == MinEmployees < n /\ n < MaxEmployees

\* the range test of company.py line 89
InEmployeeRange(n) == MinEmployees <= n /\ n <= MaxEmployees

validate_and_process_employee_count(raw_count) ==
    LET clean_count == RemoveNonDigits(SplitParenHead(raw_count)) IN
    IF clean_count # <<>>
    THEN LET employee_count_value == ParseInt(clean_count) IN
         IF InEmployeeRange(employee_count_value) THEN employee_count_value ELSE 1
    ELSE 1

(***************************************************************************)
(* SpecFact: direct calls of _validate_and_process_employee_count on raw   *)
(* answers: every text of at most MaxRawLen characters of RawAlphabet,     *)
(* the same behind a seven-digit prefix (at most MaxTailLen characters),   *)
(* and the answers the documentation names                                 *)
(***************************************************************************)
MaxRawLen == 4

MaxTailLen == 2

RawAlphabet == {"0", "1", "5", "(", ",", "u"}

TextsOfLength(n) == [1..n -> RawAlphabet]

LongPrefixes == {<<"1", "0", "0", "0", "0", "0", "0">>, <<"0", "9", "9", "9", "9", "9", "9">>}

Answer1200 == <<"1", "2", "0", "0", " ", "(", "2", "0", "2", "3", ")">>

AnswerUnknown == <<"u", "n", "k", "n", "o", "w", "n">>

Answer50000000 == <<"5", "0", "0", "0", "0", "0", "0", "0">>

RawAnswers ==
    UNION {TextsOfLength(n) : n \in 0..MaxRawLen}
    \cup {pre \o t : pre \in LongPrefixes, t \in UNION {TextsOfLength(n) : n \in 0..MaxTailLen}}
    \cup {Answer1200, AnswerUnknown, Answer50000000}

InitFact ==
    /\ websocket_manager = "none"
    /\ StateIsEmpty
    /\ PassIsIdle
    /\ \E raw \in RawAnswers :
          call = [fn |-> "_validate_and_process_employee_count", raw_count |-> raw,
                  status |-> "pending", out |-> 0]

ValidateCall ==
    /\ call.status = "pending"
    /\ call' = [call EXCEPT !.status = "returned",
                            !.out = validate_and_process_employee_count(call.raw_count)]
    /\ UNCHANGED <<stateVars, passVars>>

NextFact == ValidateCall

SpecFact == InitFact /\ [][NextFact]_vars

\* the characters of raw before its first '(' (all of raw when it has none)
FirstParen(raw) ==
    IF \E i \in 1..Len(raw) : raw[i] = "("
    THEN CHOOSE i \in 1..Len(raw) : raw[i] = "(" /\ \A j \in 1..(i - 1) : raw[j] # "("
    ELSE Len(raw) + 1

\* the positions of the digits before the first '('
DigitPlaces(raw) == {i \in 1..(FirstParen(raw) - 1) : raw[i] \in Digits}

RECURSIVE Pow10(_)
Pow10(n) == IF n = 0 THEN 1 ELSE 10 * Pow10(n - 1)

RECURSIVE PlaceSum(_, _)
PlaceSum(raw, places) ==
    IF places = {} THEN 0
    ELSE LET i == CHOOSE x \in places : \A y \in places : x <= y
             behind == Cardinality({y \in places : y > i})
         IN  DigitValue(raw[i]) * Pow10(behind) + PlaceSum(raw, places \ {i})

\* the integer the digits before the first '(' spell
SpelledInteger(raw) == PlaceSum(raw, DigitPlaces(raw))

\* C4: for every raw answer the extractor returns an integer in
\* [1, 10000000]: the integer spelled by the digits before any '(' when
\* that is in range, else exactly 1 ("1200 (2023)" gives 1200, "unknown"
\* gives 1, "50000000" gives 1).
C4_ExtractorInRangeOrOne ==
    call.status = "returned" =>
        LET raw == call.raw_count
            n == SpelledInteger(raw)
        IN  /\ call.out \in 1..10000000
            /\ (DigitPlaces(raw) # {} /\ 1 <= n /\ n <= 10000000) => call.out = n
            /\ (DigitPlaces(raw) = {} \/ n < 1 \/ n > 10000000) => call.out = 1
            /\ raw = Answer1200 => call.out = 1200
            /\ raw = AnswerUnknown => call.out = 1
            /\ raw = Answer50000000 => call.out = 1

\* C4 witness: the extractor has returned the upper end of the range, for
\* an answer that carries a parenthesis.
C4_Witness ==
    /\ call.status = "returned"
    /\ call.out = 10000000
    /\ \E i \in 1..Len(call.raw_count) : call.raw_count[i] = "("

(***************************************************************************)
(* Curator.build_enrichment_counts                                         *)
(*                                                                         *)
(* An employee count is [kind, val]: an int, a float (val in tenths: 12.7  *)
(* is 127), a bool (val 0 or 1), a str, None, or missing.                  *)
(***************************************************************************)
Int0(v) == [kind |-> "int", val |-> v]

\* isinstance(count, (int, float)): bool is a subclass of int
IsIntOrFloat(count) == count.kind \in {"int", "float", "bool"}

\* int(count): a float is truncated
IntOf(count) == IF count.kind = "float" THEN count.val \div 10 ELSE count.val

\* mutant: the count is stored as it came, without int()
CleanCount_Raw(count) == count

\* clean_count = int(count), lines 97 and 130
CleanCount(count) == Int0(IntOf(count))

\* the test of lines 96 and 129
IsPositiveNumber(count) == IsIntOrFloat(count) /\ count.val > 0

\* mutant: the ends of the range are out of range
InReasonableRange_Exclusive(clean_count) ==
    MinEmployees < clean_count.val /\ clean_count.val < MaxEmployees

\* the range test of lines 98 and 132
InReasonableRange(clean_count) ==
    MinEmployees <= clean_count.val /\ clean_count.val <= MaxEmployees

\* the loop of lines 128-136 over employee_count_dict.items()
RECURSIVE FilterValidCounts(_)
FilterValidCounts(employee_count_dict) ==
    IF employee_count_dict = <<>> THEN <<>>
    ELSE LET url == Head(employee_count_dict)[1]
             count == Head(employee_count_dict)[2]
             rest == FilterValidCounts(Tail(employee_count_dict))
         IN  IF IsPositiveNumber(count) /\ InReasonableRange(CleanCount(count))
             THEN <<<<url, CleanCount(count)>>>> \o rest
             ELSE rest

\* _extract_employee_count_from_company_data, lines 85-106
RECURSIVE extract_employee_count_from_company_data(_)
extract_employee_count_from_company_data(company_data) ==
    IF company_data = <<>> THEN <<>>
    ELSE LET url == Head(company_data)[1]
             doc == Head(company_data)[2]
             rest == extract_employee_count_from_company_data(Tail(company_data))
         IN  IF /\ doc.is_dict
                /\ doc.employee_count.kind # "missing"
                /\ IsPositiveNumber(doc.employee_count)
                /\ InReasonableRange(CleanCount(doc.employee_count))
             THEN <<<<url, CleanCount(doc.employee_count)>>>> \o rest
             ELSE rest

\* mutant: the count is added to the one state already holds
UpdatedCompanyCount_Accumulating(valid_employee_counts, company_count) ==
    company_count + Len(valid_employee_counts)

\* state['Company_Count'] of lines 150 and 156
UpdatedCompanyCount(valid_employee_counts, company_count) ==
    Len(valid_employee_counts)

\* The snapshot of lines 159-184.
EnrichmentSnapshot(valid_employee_counts, total_employee_count, raw, cur) ==
    [company |-> [enriched |-> Len(cur["company"]), total |-> Len(raw["company"])],
     employeeCount |->
        [enriched |-> total_employee_count,
         total |-> 1,
         data |-> valid_employee_counts,
         hasData |-> (valid_employee_counts # <<>> /\ total_employee_count > 0),
         totalCount |-> total_employee_count,
         validCounts |-> Len(valid_employee_counts)],
     industry |-> [enriched |-> Len(cur["industry"]), total |-> Len(raw["industry"])],
     financial |-> [enriched |-> Len(cur["financial"]), total |-> Len(raw["financial"])],
     news |-> [enriched |-> Len(cur["news"]), total |-> Len(raw["news"])]]

\* mutant of build_enrichment_counts: company_data is consulted whenever it
\* is not empty
build_enrichment_counts_AlwaysRecover(employee_count_dict, company_count, raw, cur) ==
    LET company_data == raw["company"]
        recover == company_data # <<>>
        valid_employee_counts ==
            IF recover THEN extract_employee_count_from_company_data(company_data)
            ELSE FilterValidCounts(employee_count_dict)
        total_employee_count == SumValues(valid_employee_counts)
    IN  [employee_count |-> valid_employee_counts,
         Company_Count |-> UpdatedCompanyCount(valid_employee_counts, company_count),
         recovered |-> recover,
         enrichment_counts |->
            EnrichmentSnapshot(valid_employee_counts, total_employee_count, raw, cur)]

\* build_enrichment_counts(state) on the state fields it reads.  Result:
\* the two fields it writes and the snapshot it returns.
build_enrichment_counts(employee_count_dict, company_count, raw, cur) ==
    LET company_data == raw["company"]
        from_state == FilterValidCounts(employee_count_dict)
        recover == from_state = <<>> /\ company_data # <<>>
        valid_employee_counts ==
            IF recover THEN extract_employee_count_from_company_data(company_data)
            ELSE from_state
        total_employee_count == SumValues(valid_employee_counts)
    IN  [employee_count |-> valid_employee_counts,
         Company_Count |-> UpdatedCompanyCount(valid_employee_counts, company_count),
         recovered |-> recover,
         enrichment_counts |->
            EnrichmentSnapshot(valid_employee_counts, total_employee_count, raw, cur)]

(***************************************************************************)
(* SpecCounts: direct calls of Curator.build_enrichment_counts, one after  *)
(* the other, on states whose employee_count and company_data hold valid   *)
(* and invalid entries                                                     *)
(***************************************************************************)
MaxCalls == 2

MaxEmployeeEntries == 2

MaxCompanyDocs == 2

\* keys: the slug of a company name and two URLs
KeyAcme == <<"acme">>

KeyAcmeUrl == <<"https", "://", "acme.com">>

KeyAcmeAbout == <<"https", "://", "acme.com/about">>

KeyAcmeJobs == <<"https", "://", "acme.com/jobs">>

EmployeeKeys == <<KeyAcme, KeyAcmeUrl, KeyAcmeAbout, KeyAcmeJobs>>

\* 1200, 10000000, 10000001, 0, 12.7, 0.5, True, "1200"
EmployeeValueChoices ==
    {Int0(1200), Int0(10000000), Int0(10000001), Int0(0),
     [kind |-> "float", val |-> 127], [kind |-> "float", val |-> 5],
     [kind |-> "bool", val |-> 1], [kind |-> "str", val |-> 1200]}

EmployeeDicts ==
    UNION {{[i \in 1..n |-> <<EmployeeKeys[i], f[i]>>] : f \in [1..n -> EmployeeValueChoices]} :
           n \in 0..MaxEmployeeEntries}

\* the employee_count sub-field of a company document
SubFieldChoices ==
    {Missing, Int0(1200), Int0(10000001), [kind |-> "str", val |-> 1200]}

\* company documents under the keys KeyAcmeUrl, KeyAcmeAbout, ...
CompanyDicts ==
    UNION {{[i \in 1..n |-> <<EmployeeKeys[i + 1], Document(i, Num(90), f[i])>>] :
                f \in [1..n -> SubFieldChoices]} :
           n \in 0..MaxCompanyDocs}

InitCounts ==
    /\ websocket_manager = "none"
    /\ \E cd \in CompanyDicts : data = [EmptyData EXCEPT !["company"] = cd]
    /\ curated = [EmptyData EXCEPT !["company"] = Take(data["company"], 1)]
    /\ employee_count \in EmployeeDicts
    /\ \/ stateKeys = {"employee_count", "Company_Count"} /\ Company_Count \in {0, 1}
       \/ stateKeys = {} /\ Company_Count = 0 /\ employee_count = <<>>
    /\ enrichment_counts = <<>>
    /\ enrichmentCounts = NoSnapshot
    /\ PassIsIdle
    /\ call = [fn |-> "build_enrichment_counts", n |-> 0, before |-> employee_count,
               recovered |-> FALSE, returned |-> <<>>, after |-> <<>>]

\* one call of build_enrichment_counts(state)
BuildCall ==
    /\ call.n < MaxCalls
    /\ LET r == build_enrichment_counts(employee_count, Company_Count, data, curated) IN
          /\ employee_count' = r.employee_count
          /\ Company_Count' = r.Company_Count
          /\ stateKeys' = stateKeys \cup {"employee_count", "Company_Count"}
          /\ call' = [call EXCEPT
                        !.n = @ + 1,
                        !.recovered = IF call.n = 0 THEN r.recovered ELSE @,
                        !.returned = Append(@, r.enrichment_counts),
                        !.after = Append(@, [employee_count |-> r.employee_count,
                                             Company_Count |-> r.Company_Count])]
    /\ UNCHANGED <<websocket_manager, data, curated, enrichment_counts, enrichmentCounts,
                   passVars>>

NextCounts == BuildCall

SpecCounts == InitCounts /\ [][NextCounts]_vars

\* an entry of a dict is an integer in [1, 10,000,000]
IsValidFact(v) == v.kind = "int" /\ 1 <= v.val /\ v.val <= 10000000

\* the integer a numeric value stands for once truncated
Truncated(v) == IF v.kind = "float" THEN v.val \div 10 ELSE v.val

\* (k, v) entered the validated mapping from state or from company_data
HasOrigin(k, v) ==
    \/ \E i \in 1..Len(call.before) :
          /\ call.before[i][1] = k
          /\ call.before[i][2].kind \in {"int", "float", "bool"}
          /\ Truncated(call.before[i][2]) = v.val
    \/ \E i \in 1..Len(data["company"]) :
          /\ data["company"][i][1] = k
          /\ data["company"][i][2].employee_count.kind \in {"int", "float", "bool"}
          /\ Truncated(data["company"][i][2].employee_count) = v.val

\* C5: after every call of build_enrichment_counts, Company_Count is the
\* number of entries of employee_count, every entry of employee_count and of
\* the snapshot's employeeCount.data is an integer in [1, 10,000,000] that
\* came from a numeric entry, and no entry that failed validation is left.
C5_CompanyCountMatchesValidated ==
    call.n >= 1 =>
        LET snapshot == call.returned[call.n] IN
        /\ Company_Count = Len(employee_count)
        /\ snapshot.employeeCount.data = employee_count
        /\ \A i \in 1..Len(employee_count) :
              /\ IsValidFact(employee_count[i][2])
              /\ HasOrigin(employee_count[i][1], employee_count[i][2])
        /\ \A i \in 1..Len(call.before) :
              ~(call.before[i][2].kind \in {"int", "float", "bool"}
                /\ Truncated(call.before[i][2]) \in 1..10000000)
                  => \A j \in 1..Len(employee_count) :
                        employee_count[j] # call.before[i]

\* C5 witness: a call dropped one entry of two and kept the other.
C5_Witness ==
    /\ call.n = 1
    /\ Len(call.before) = 2
    /\ Len(employee_count) = 1
    /\ Company_Count = 1
    /\ ~call.recovered

\* C9: build_enrichment_counts is idempotent: the second of two calls in a
\* row returns the snapshot the first returned and leaves employee_count and
\* Company_Count as the first left them.
C9_BuildIdempotent ==
    call.n >= 2 =>
        /\ call.returned[call.n] = call.returned[call.n - 1]
        /\ call.after[call.n] = call.after[call.n - 1]
        /\ employee_count = call.after[call.n - 1].employee_count
        /\ Company_Count = call.after[call.n - 1].Company_Count

\* C9 witness: two calls in a row, the first of which dropped every entry
\* of state and recovered a count from company_data.
C9_Witness ==
    /\ call.n = 2
    /\ call.recovered
    /\ call.before # <<>>
    /\ employee_count # <<>>

(***************************************************************************)
(* URL strings: urlparse, _replace(query='', fragment='').geturl()         *)
(***************************************************************************)
HasSchemeToken(url) == Len(url) >= 2 /\ url[2] = "://"

\* the token after the separator sep ("?" or "#"), "" when url has none
TokenAfter(url, sep) ==
    IF \E i \in 1..(Len(url) - 1) : url[i] = sep
    THEN url[(CHOOSE i \in 1..(Len(url) - 1) : url[i] = sep) + 1]
    ELSE ""

\* urlparse(url): scheme, netloc and path (kept together as rest), query,
\* fragment
UrlParse(url) ==
    [scheme |-> IF HasSchemeToken(url) THEN url[1] ELSE "",
     rest |-> IF HasSchemeToken(url) THEN url[3] ELSE url[1],
     query |-> TokenAfter(url, "?"),
     fragment |-> TokenAfter(url, "#")]

\* urlparse raises ValueError for a netloc with an unmatched bracket
BadNetloc == "[bad"

UrlParseRaises(url) == HasSchemeToken(url) /\ url[3] = BadNetloc

\* ParseResult.geturl()
GetUrl(parsed) ==
    (IF parsed.scheme # "" THEN <<parsed.scheme, "://">> ELSE <<>>)
    \o <<parsed.rest>>
    \o (IF parsed.query # "" THEN <<"?", parsed.query>> ELSE <<>>)
    \o (IF parsed.fragment # "" THEN <<"#", parsed.fragment>> ELSE <<>>)

\* urljoin('https://', url) for a url without scheme, line 310
UrlJoinHttps(url) == <<"https", ":///">> \o url

\* mutant: the query string stays in the key
CleanUrl_KeepQuery(parsed) == GetUrl([parsed EXCEPT !.fragment = ""])

\* mutant: every key is given the scheme https
CleanUrl_ForceHttps(parsed) ==
    GetUrl([parsed EXCEPT !.scheme = "https", !.query = "", !.fragment = ""])

\* clean_url of line 311, from the ParseResult of line 308
CleanUrl(parsed) == GetUrl([parsed EXCEPT !.query = "", !.fragment = ""])

\* Lines 308-311 for one key.  The url joined with https:// at line 310 is
\* bound to the local url only; clean_url is built from parsed, the result
\* of parsing the key as it came.
NormalizeKey(key) ==
    LET parsed == UrlParse(key)
        url == IF parsed.scheme = "" THEN UrlJoinHttps(key) ELSE key
    IN  [url |-> url, clean_url |-> CleanUrl(parsed)]

(***************************************************************************)
(* Curator.curate_data: deduplication, lines 298-322                       *)
(***************************************************************************)
\* The loop of lines 306-319 over data.items(), from entry i on.
\* unique_docs: the dict built so far; items: data with the documents as
\* the loop has rewritten them in place.
RECURSIVE DedupLoop(_, _, _, _)
DedupLoop(items, i, unique_docs, doc_type) ==
    IF i > Len(items) THEN [unique_docs |-> unique_docs, items |-> items]
    ELSE LET url == items[i][1]
             doc == items[i][2]
         IN  IF UrlParseRaises(url)
             THEN DedupLoop(items, i + 1, unique_docs, doc_type)
             ELSE LET clean_url == NormalizeKey(url).clean_url IN
                  IF HasKey(unique_docs, clean_url)
                  THEN DedupLoop(items, i + 1, unique_docs, doc_type)
                  ELSE IF ~doc.is_dict
                       THEN \* doc['url'] = ... raises TypeError, caught at line 317
                            DedupLoop(items, i + 1, unique_docs, doc_type)
                       ELSE LET rewritten ==
                                    [doc EXCEPT !.url = clean_url, !.doc_type = doc_type]
                            IN  DedupLoop([items EXCEPT ![i] = <<url, rewritten>>], i + 1,
                                          Append(unique_docs, <<clean_url, rewritten>>),
                                          doc_type)

\* Lines 299-322 from category number n on.  Result: curation_tasks and
\* the category data as rewritten.
RECURSIVE PrepareTasks(_, _, _)
PrepareTasks(raw, n, tasks) ==
    IF n > Len(Categories) THEN [curation_tasks |-> tasks, data |-> raw]
    ELSE LET doc_type == Categories[n] IN
         IF raw[doc_type] = <<>>
         THEN PrepareTasks(raw, n + 1, tasks)
         ELSE LET r == DedupLoop(raw[doc_type], 1, <<>>, doc_type) IN
              PrepareTasks([raw EXCEPT ![doc_type] = r.items], n + 1,
                           Append(tasks, [data_field |-> doc_type,
                                          urls |-> Keys(r.unique_docs),
                                          docs |-> Values(r.unique_docs)]))

(***************************************************************************)
(* Curator.curate_data: one category, lines 343-378                        *)
(***************************************************************************)
\* zip(urls, evaluated_docs) as dict items, line 352
ZipItems(urls, evaluated_docs) ==
    [i \in 1..Min(Len(urls), Len(evaluated_docs)) |-> <<urls[i], evaluated_docs[i]>>]

\* sorted(relevant_docs.items(), key=overall_score, reverse=True), lines 353-357
RECURSIVE SortItemInsert(_, _)
SortItemInsert(sorted, item) ==
    IF sorted = <<>> THEN <<item>>
    ELSE IF Head(sorted)[2].evaluation.overall_score >= item[2].evaluation.overall_score
         THEN <<Head(sorted)>> \o SortItemInsert(Tail(sorted), item)
         ELSE <<item>> \o sorted

RECURSIVE SortItems(_)
SortItems(items) ==
    IF items = <<>> THEN <<>>
    ELSE SortItemInsert(SortItems(SubSeq(items, 1, Len(items) - 1)), items[Len(items)])

\* mutant: the last MaxCurated items are kept
CapItems_KeepLast(sorted_items) ==
    IF Len(sorted_items) > MaxCurated
    THEN SubSeq(sorted_items, Len(sorted_items) - MaxCurated + 1, Len(sorted_items))
    ELSE sorted_items

\* lines 359-362
CapItems(sorted_items) ==
    IF Len(sorted_items) > MaxCurated THEN SubSeq(sorted_items, 1, MaxCurated)
    ELSE sorted_items

\* lines 351-364: relevant_docs for a non-empty evaluated_docs
RelevantDocs(urls, evaluated_docs) == CapItems(SortItems(ZipItems(urls, evaluated_docs)))

(***************************************************************************)
(* State Reconciler, lines 216-249                                         *)
(***************************************************************************)
preserve_critical_state_data ==
    [employee_count |-> employee_count,
     Company_Count |-> Company_Count,
     enrichment_counts |-> enrichment_counts]

\* _restore_critical_state_data: the three fields after the restore
restore_critical_state_data(preserved) ==
    [employee_count |->
        IF preserved.employee_count # <<>> THEN preserved.employee_count
        ELSE employee_count,
     Company_Count |->
        IF preserved.employee_count # <<>> THEN preserved.Company_Count
        ELSE Company_Count,
     enrichment_counts |->
        IF preserved.enrichment_counts # <<>>
           /\ HasKey(preserved.enrichment_counts, "employeeCount")
        THEN Put(enrichment_counts, "employeeCount",
                 Get(preserved.enrichment_counts, "employeeCount"))
        ELSE enrichment_counts,
     restored_employee_count |-> preserved.employee_count # <<>>,
     restored_enrichment_counts |->
        preserved.enrichment_counts # <<>>
        /\ HasKey(preserved.enrichment_counts, "employeeCount")]

(***************************************************************************)
(* Curator.run and Curator.curate_data as steps.  A delivery to the        *)
(* progress channel may raise whenever a channel is attached.              *)
(***************************************************************************)
MaxFailPosition == 2

Attached == websocket_manager = "attached"

DeliveryRaises == IF Attached THEN BOOLEAN ELSE {FALSE}

KeptFailChoices(docs) == IF Attached THEN 0..Min(Len(docs), MaxFailPosition) ELSE {0}

Escaped(at, category) == [at |-> at, category |-> category, escaped |-> TRUE]

Caught(at, category) == [at |-> at, category |-> category, escaped |-> FALSE]

\* A notification: the fields of send_status_update's result the checkpoints
\* differ in.  Fields a checkpoint does not carry hold 0, "" or NoSnapshot.
Notification(checkpoint, doc_type, initial_count, title, counts, snapshot) ==
    [checkpoint |-> checkpoint, doc_type |-> doc_type, initial_count |-> initial_count,
     title |-> title, doc_counts |-> counts, enrichmentCounts |-> snapshot]

\* lines 263-279: "Starting document curation", doc_counts all zero
CurationStart ==
    Notification("curation_start", "", 0, 0,
                 [c \in CategorySet |-> [initial |-> 0, kept |-> 0]], NoSnapshot)

\* lines 333-344
CategoryStart(doc_type, docs) ==
    Notification("category_start", doc_type, Len(docs), 0, NoSnapshot, NoSnapshot)

\* lines 23-31: "Evaluating documents"
EvaluationStart == Notification("evaluation_start", "", 0, 0, NoSnapshot, NoSnapshot)

\* lines 57-70, one for each document of notified
DocumentKept(notified) ==
    [i \in 1..Len(notified) |->
        Notification("document_kept", notified[i].doc_type, 0, notified[i].title,
                     NoSnapshot, NoSnapshot)]

\* doc_counts.get(<category>, {"initial": 0, "kept": 0}) of lines 418-423
ReportedDocCounts(counts) ==
    [c \in CategorySet |->
        IF HasKey(counts, c) THEN Get(counts, c) ELSE [initial |-> 0, kept |-> 0]]

\* lines 411-435
CurationComplete(snapshot, counts) ==
    Notification("curation_complete", "", 0, 0, ReportedDocCounts(counts), snapshot)

\* _send_enrichment_update, lines 200-211
EnrichmentUpdate(snapshot) ==
    Notification("enrichment_update", "", 0, 0, NoSnapshot, snapshot)

\* mutant: the channel takes the newest notifications first
Deliver_Newest(notifications) == IF Attached THEN notifications \o sent ELSE sent

\* what the channel has taken once notifications are delivered to it
Deliver(notifications) == IF Attached THEN sent \o notifications ELSE sent

\* run calls curate_data: lines 255-279, up to the curation-start delivery
Curate_Start ==
    /\ pc = "idle"
    /\ preserved_data' = preserve_critical_state_data
    /\ \E fail \in DeliveryRaises :
          IF fail
          THEN /\ pc' = "except"
               /\ exceptions' = Append(exceptions, Escaped("curation_start", ""))
               /\ UNCHANGED sent
          ELSE /\ pc' = "prepare"
               /\ sent' = Deliver(<<CurationStart>>)
               /\ UNCHANGED exceptions
    /\ UNCHANGED <<stateVars, curation_tasks, doc_counts, call>>

\* lines 281-325: the curation tasks
Curate_Prepare ==
    /\ pc = "prepare"
    /\ LET r == PrepareTasks(data, 1, <<>>) IN
          /\ data' = r.data
          /\ curation_tasks' = r.curation_tasks
          /\ pc' = IF r.curation_tasks = <<>> THEN "reconcile" ELSE "category"
    /\ doc_counts' = <<>>
    /\ UNCHANGED <<websocket_manager, curated, employee_count, Company_Count, stateKeys,
                   enrichment_counts, enrichmentCounts, preserved_data, exceptions, sent,
                   call>>

\* lines 326-378: one iteration of the loop over curation_tasks
Curate_Category ==
    /\ pc = "category"
    /\ LET n == Len(doc_counts) + 1
           task == curation_tasks[n]
           next == IF n = Len(curation_tasks) THEN "reconcile" ELSE "category"
       IN  \E failCategoryStart \in DeliveryRaises, failStart \in DeliveryRaises,
              failKept \in KeptFailChoices(task.docs) :
              IF failCategoryStart
              THEN /\ pc' = "except"
                   /\ exceptions' = Append(exceptions, Escaped("category_start", task.data_field))
                   /\ UNCHANGED <<doc_counts, curated, sent>>
              ELSE LET r == evaluate_documents(task.docs, Attached, failStart, failKept) IN
                   IF r.outcome = "raised"
                   THEN /\ pc' = "except"
                        /\ exceptions' =
                              Append(exceptions, Escaped("evaluation_start", task.data_field))
                        /\ sent' = Deliver(<<CategoryStart(task.data_field, task.docs)>>)
                        /\ UNCHANGED <<doc_counts, curated>>
                   ELSE /\ pc' = next
                        /\ sent' = Deliver(<<CategoryStart(task.data_field, task.docs),
                                             EvaluationStart>> \o DocumentKept(r.notified))
                        /\ exceptions' =
                              IF r.aborted
                              THEN Append(exceptions, Caught("document_kept", task.data_field))
                              ELSE exceptions
                        /\ IF r.docs = <<>>
                           THEN /\ doc_counts' =
                                      Put(doc_counts, task.data_field,
                                          [initial |-> Len(task.docs), kept |-> 0])
                                /\ UNCHANGED curated
                           ELSE LET relevant_docs == RelevantDocs(task.urls, r.docs) IN
                                /\ doc_counts' =
                                      Put(doc_counts, task.data_field,
                                          [initial |-> Len(task.docs),
                                           kept |-> Len(relevant_docs)])
                                /\ curated' = [curated EXCEPT ![task.data_field] = relevant_docs]
    /\ UNCHANGED <<websocket_manager, data, employee_count, Company_Count, stateKeys,
                   enrichment_counts, enrichmentCounts, preserved_data, curation_tasks, call>>

\* mutant of Curate_Reconcile: the snapshot is built before the restore
Curate_Reconcile_BuildFirst ==
    /\ pc = "reconcile"
    /\ LET built == build_enrichment_counts(employee_count, Company_Count, data, curated)
           restored == restore_critical_state_data(preserved_data)
       IN  /\ employee_count' =
                 IF restored.restored_employee_count THEN restored.employee_count
                 ELSE built.employee_count
           /\ Company_Count' =
                 IF restored.restored_employee_count THEN restored.Company_Count
                 ELSE built.Company_Count
           /\ enrichment_counts' = restored.enrichment_counts
           /\ enrichmentCounts' = built.enrichment_counts
    /\ stateKeys' = stateKeys \cup {"employee_count", "Company_Count", "enrichmentCounts"}
    /\ pc' = "report"
    /\ UNCHANGED <<websocket_manager, data, curated, preserved_data, curation_tasks,
                   doc_counts, exceptions, sent, call>>

\* lines 380-407: restore, enrichment counts, state['enrichmentCounts']
Curate_Reconcile ==
    /\ pc = "reconcile"
    /\ LET restored == restore_critical_state_data(preserved_data)
           built == build_enrichment_counts(restored.employee_count, restored.Company_Count,
                                            data, curated)
       IN  /\ employee_count' = built.employee_count
           /\ Company_Count' = built.Company_Count
           /\ enrichment_counts' = restored.enrichment_counts
           /\ enrichmentCounts' = built.enrichment_counts
    /\ stateKeys' = stateKeys \cup {"employee_count", "Company_Count", "enrichmentCounts"}
    /\ pc' = "report"
    /\ UNCHANGED <<websocket_manager, data, curated, preserved_data, curation_tasks,
                   doc_counts, exceptions, sent, call>>

\* lines 409-441: curation_complete, then _send_enrichment_update, which
\* catches what its delivery raises
Curate_Report ==
    /\ pc = "report"
    /\ \E failComplete \in DeliveryRaises, failUpdate \in DeliveryRaises :
          IF failComplete
          THEN /\ pc' = "except"
               /\ exceptions' = Append(exceptions, Escaped("curation_complete", ""))
               /\ UNCHANGED sent
          ELSE /\ pc' = "done"
               /\ exceptions' =
                     IF failUpdate THEN Append(exceptions, Caught("enrichment_update", ""))
                     ELSE exceptions
               /\ sent' = Deliver(<<CurationComplete(enrichmentCounts, doc_counts)>>
                                  \o (IF failUpdate THEN <<>>
                                      ELSE <<EnrichmentUpdate(enrichmentCounts)>>))
    /\ UNCHANGED <<stateVars, preserved_data, curation_tasks, doc_counts, call>>

\* mutant: the except clause of run returns the state without a snapshot
Run_Except_NoSnapshot ==
    /\ pc = "except"
    /\ pc' = "done"
    /\ UNCHANGED <<stateVars, preserved_data, curation_tasks, doc_counts, exceptions, sent,
                   call>>

\* the except clause of run, lines 449-461
Run_Except ==
    /\ pc = "except"
    /\ LET built == build_enrichment_counts(employee_count, Company_Count, data, curated) IN
          /\ employee_count' = built.employee_count
          /\ Company_Count' = built.Company_Count
          /\ enrichmentCounts' = built.enrichment_counts
    /\ stateKeys' = stateKeys \cup {"employee_count", "Company_Count", "enrichmentCounts"}
    /\ pc' = "done"
    /\ UNCHANGED <<websocket_manager, data, curated, enrichment_counts, preserved_data,
                   curation_tasks, doc_counts, exceptions, sent, call>>

Next ==
    \/ Curate_Start
    \/ Curate_Prepare
    \/ Curate_Category
    \/ Curate_Reconcile
    \/ Curate_Report
    \/ Run_Except

(***************************************************************************)
(* CompanyAnalyzer.analyze: the employee-count step, lines 246-303, and    *)
(* the two updates it sends                                                *)
(***************************************************************************)
\* the fallback of the except clause, line 292
FallbackEmployees == 100

Answer1500 == <<"1", "5", "0", "0">>

\* what the model answers to the prompt of get_employee_count_via_llm
AnalyzerAnswers == {Answer1500, AnswerUnknown, Answer50000000}

\* the outcomes of the executor call of lines 61-62: it raises, or it
\* returns the stripped text of the response
AnalyzerResponses ==
    {[raised |-> TRUE, text |-> <<>>]}
    \cup {[raised |-> FALSE, text |-> answer] : answer \in AnalyzerAnswers}

\* re.search(r"(\d[\d,]*)", result) with the commas removed, lines 65-67:
\* the first run of digits and commas that starts with a digit; <<>> when
\* the text has no digit
RECURSIVE DigitRun(_)
DigitRun(text) ==
    IF text = <<>> THEN <<>>
    ELSE IF IsDigit(Head(text)) THEN <<Head(text)>> \o DigitRun(Tail(text))
    ELSE IF Head(text) = "," THEN DigitRun(Tail(text))
    ELSE <<>>

RECURSIVE FirstNumber(_)
FirstNumber(text) ==
    IF text = <<>> THEN <<>>
    ELSE IF IsDigit(Head(text)) THEN DigitRun(text)
    ELSE FirstNumber(Tail(text))

\* get_employee_count_via_llm, lines 55-76
get_employee_count_via_llm(response) ==
    IF response.raised THEN <<"1">>
    ELSE IF FirstNumber(response.text) = <<>> THEN <<"1">>
    ELSE FirstNumber(response.text)

\* state.get('company_url', ...): the key the analyzer writes under
CompanyUrls == {KeyAcme, KeyAcmeUrl}

\* enrichment_counts['employeeCount'] of lines 116-121
EmployeeCountReady(count) ==
    [enriched |-> count, total |-> 1, data |-> <<<<KeyAcme, Int0(count)>>>>,
     hasData |-> count > 0]

\* next(iter(state.get('employee_count', {None: 0}).values())), line 163,
\* for the dict analyze has just written to, which is not empty
FirstEmployeeCount(employee_count_dict) == employee_count_dict[1][2].val

\* the dict of lines 157-178, for the state as the analyzer has written it
EnrichmentCountsUpdated(employee_count_dict, company_count) ==
    <<<<"company", [enriched |-> Len(data["company"]),
                    total |-> company_count + Len(data["company"])]>>,
      <<"employeeCount", [enriched |-> FirstEmployeeCount(employee_count_dict),
                          total |-> 1]>>,
      <<"industry", [enriched |-> Len(data["industry"]), total |-> Len(data["industry"])]>>,
      <<"financial", [enriched |-> Len(data["financial"]), total |-> Len(data["financial"])]>>,
      <<"news", [enriched |-> Len(data["news"]), total |-> Len(data["news"])]>>>>

\* the loading payload of lines 257-263
EmployeeCountLoading ==
    <<<<"employeeCount", [enriched |-> 0, total |-> 1, loading |-> TRUE]>>>>

AnalyzerNotification(checkpoint, payload) ==
    Notification(checkpoint, "", 0, 0, NoSnapshot, payload)

\* the curation pass is suspended in a delivery between its snapshot of the
\* employee facts (line 258) and their restore (line 381)
PassSuspended == Attached /\ pc \in {"prepare", "category"}

\* the value the employee-count step stores: 100 from the except clause of
\* lines 290-292, else the validated answer of lines 267-268
EmployeeCountValue(response, failLoading) ==
    IF failLoading THEN FallbackEmployees
    ELSE validate_and_process_employee_count(get_employee_count_via_llm(response))

\* The employee-count step of analyze, lines 246-303, for one outcome of
\* the model call.  With a channel, the loading delivery of lines 251-265
\* may raise, which takes the except clause of lines 290-303; the
\* deliveries of the two update methods are caught inside them.
EmployeeCountStep(company_url, response, failLoading, failReady, failUpdated) ==
    LET employee_count_value == EmployeeCountValue(response, failLoading)
        written == Put(employee_count, company_url, Int0(employee_count_value))
        company_count ==
            IF failLoading \/ employee_count_value > 0 THEN 1 ELSE 0
        ready == Put(enrichment_counts, "employeeCount",
                     EmployeeCountReady(employee_count_value))
        updated == EnrichmentCountsUpdated(written, company_count)
    IN  /\ employee_count' = written
        /\ Company_Count' = company_count
        /\ stateKeys' = stateKeys \cup {"employee_count", "Company_Count"}
        /\ enrichment_counts' =
              IF ~Attached THEN enrichment_counts
              ELSE IF failLoading THEN ready
              ELSE updated
        /\ sent' =
              Deliver((IF failLoading THEN <<>>
                       ELSE <<AnalyzerNotification("employee_count_loading",
                                                   EmployeeCountLoading)>>)
                      \o (IF failReady THEN <<>>
                          ELSE <<AnalyzerNotification("employee_count_ready", ready)>>)
                      \o (IF failLoading \/ failUpdated THEN <<>>
                          ELSE <<AnalyzerNotification("enrichment_counts_updated",
                                                      updated)>>))
        /\ UNCHANGED <<websocket_manager, data, curated, enrichmentCounts, pc,
                       preserved_data, curation_tasks, doc_counts, exceptions>>

\* CompanyAnalyzer.analyze, run once in a job
Analyze ==
    /\ pc = "idle" \/ PassSuspended
    /\ call = NoCall
    /\ \E company_url \in CompanyUrls, response \in AnalyzerResponses,
          failLoading \in DeliveryRaises, failReady \in DeliveryRaises,
          failUpdated \in DeliveryRaises :
          /\ EmployeeCountStep(company_url, response, failLoading, failReady, failUpdated)
          /\ call' = [fn |-> "analyze",
                      company_url |-> company_url,
                      employee_count |-> EmployeeCountValue(response, failLoading),
                      response |-> response,
                      raised |-> failLoading,
                      at |-> pc]

(***************************************************************************)
(* Initial states: a job's state as the research stages leave it           *)
(***************************************************************************)
Url(scheme, rest, query, fragment) ==
    GetUrl([scheme |-> scheme, rest |-> rest, query |-> query, fragment |-> fragment])

UrlA == Url("https", "a.com/x", "", "")

UrlB == Url("https", "b.com/y", "", "")

\* what the company analyzer leaves in enrichment_counts for one count
AnalyzerCounts(key, count) ==
    <<<<"employeeCount", [enriched |-> count.val, total |-> 1,
                          data |-> <<<<key, count>>>>, hasData |-> count.val > 0]>>>>

\* the employee facts of the initial state: none, one valid, one out of range
InitFacts ==
    \/ /\ stateKeys = {}
       /\ employee_count = <<>>
       /\ Company_Count = 0
       /\ enrichment_counts = <<>>
    \/ /\ stateKeys = {"employee_count", "Company_Count"}
       /\ \E count \in {Int0(1200), Int0(10000001)} :
             /\ employee_count = <<<<KeyAcme, count>>>>
             /\ enrichment_counts \in {<<>>, AnalyzerCounts(KeyAcme, count)}
       /\ Company_Count = 1

InitPass ==
    /\ PassIsIdle
    /\ call = NoCall
    /\ curated = EmptyData
    /\ enrichmentCounts = NoSnapshot

\* Spec: every category holds no document, one relevant document, or an
\* irrelevant document followed by a relevant one
SmallChoices(category) ==
    {<<>>,
     <<<<UrlA, Document(1, Num(90), Missing)>>>>,
     <<<<UrlA, Document(1, Num(39), Missing)>>, <<UrlB, Document(2, Num(90), Missing)>>>>}
    \cup (IF category = "company"
          THEN {<<<<UrlA, Document(1, Num(90), Int0(1200))>>>>}
          ELSE {})

Init ==
    /\ websocket_manager \in {"none", "attached"}
    /\ data \in {d \in [CategorySet -> UNION {SmallChoices(c) : c \in CategorySet}] :
                    \A c \in CategorySet : d[c] \in SmallChoices(c)}
    /\ InitFacts
    /\ InitPass

Spec == Init /\ [][Next]_vars

\* an exception left curate_data at the checkpoint at
EscapedAt(at) ==
    \E i \in 1..Len(exceptions) : exceptions[i].escaped /\ exceptions[i].at = at

\* the task of a category in curation_tasks (the category has raw data)
TaskOf(category) ==
    curation_tasks[CHOOSE n \in 1..Len(curation_tasks) :
                       curation_tasks[n].data_field = category]

HasTask(category) ==
    \E n \in 1..Len(curation_tasks) : curation_tasks[n].data_field = category

\* a candidate document is relevant: its score is numeric and >= 0.4
IsRelevant(doc) == doc.is_dict /\ doc.score.kind \in {"num", "str"} /\ doc.score.val >= 40

\* an exception was raised while evaluate_documents ran for the category
FailedInEvaluation(category, kinds) ==
    \E i \in 1..Len(exceptions) :
        exceptions[i].category = category /\ exceptions[i].at \in kinds

\* the pass ended with the failure of category kept to that category
FailureIsolated(category) ==
    /\ HasKey(doc_counts, category)
    /\ Get(doc_counts, category) = [initial |-> Len(TaskOf(category).docs), kept |-> 0]
    /\ \A other \in CategorySet \ {category} :
          (data[other] # <<>>
           /\ ~FailedInEvaluation(other, {"evaluation_start", "document_kept"})
           /\ \E i \in 1..Len(data[other]) : IsRelevant(data[other][i][2]))
              => /\ HasKey(doc_counts, other)
                 /\ curated[other] # <<>>
                 /\ Get(doc_counts, other).kept = Len(curated[other])

\* C10: an exception raised while one category is being evaluated is caught
\* for that category alone: every other category with raw data still gets
\* its curated set stored, and the failing category is recorded as
\* {initial: N, kept: 0}.
C10_EvaluationFailureIsolated ==
    pc = "done" =>
        \A c \in CategorySet :
            FailedInEvaluation(c, {"evaluation_start", "document_kept"})
                => FailureIsolated(c)

\* C10, what the code does: the failure stays with its category when it is
\* raised inside the loop of evaluate_documents (a document_kept delivery).
C10_LoopFailureIsolated ==
    pc = "done" =>
        \A c \in CategorySet :
            (FailedInEvaluation(c, {"document_kept"})
             /\ \A i \in 1..Len(exceptions) : ~exceptions[i].escaped)
                => FailureIsolated(c)

(***************************************************************************)
(* SpecDedup: a curation pass over one category whose raw keys are         *)
(* variants of one address: with and without scheme, query and fragment    *)
(***************************************************************************)
MaxUrlDocs == 2

\* a.com/x under every scheme, query and fragment; b.com/y; a key urlparse
\* rejects
RawUrls ==
    {Url(scheme, "a.com/x", query, fragment) :
        scheme \in {"", "http", "https"}, query \in {"", "ref=1"}, fragment \in {"", "top"}}
    \cup {UrlB, Url("http", BadNetloc, "", "")}

\* the score of the document at a position: 0.9, 0.5, 0.4, 0.4, ...
PositionScore(i) == IF i = 1 THEN Num(90) ELSE IF i = 2 THEN Num(50) ELSE Num(40)

\* raw category data: distinct keys, documents titled by position; the
\* first value may be no mapping
UrlData ==
    UNION {{[i \in 1..n |-> <<keys[i],
                              IF i = 1 /\ malformed THEN Malformed(i)
                              ELSE Document(i, PositionScore(i), Missing)>>] :
               keys \in {k \in [1..n -> RawUrls] :
                            \A i, j \in 1..n : i # j => k[i] # k[j]},
               malformed \in BOOLEAN} :
           n \in 0..MaxUrlDocs}

NoFacts ==
    /\ stateKeys = {}
    /\ employee_count = <<>>
    /\ Company_Count = 0
    /\ enrichment_counts = <<>>

InitDedup ==
    /\ websocket_manager \in {"none", "attached"}
    /\ \E focus \in {"financial", "company"}, raw \in UrlData :
          data = [EmptyData EXCEPT ![focus] = raw]
    /\ NoFacts
    /\ InitPass

SpecDedup == InitDedup /\ [][Next]_vars

\* the candidates of a category: the documents handed to the evaluator
Candidates(category) == IF HasTask(category) THEN TaskOf(category).docs ELSE <<>>

\* the key without its query string and fragment
Stripped(key) == Url(UrlParse(key).scheme, UrlParse(key).rest, "", "")

\* two keys differ at most by query string and fragment
DifferOnlyByQueryOrFragment(k1, k2) ==
    /\ UrlParse(k1).scheme = UrlParse(k2).scheme
    /\ UrlParse(k1).rest = UrlParse(k2).rest

\* entry i of the category's raw data is a mapping under a key urlparse accepts
Usable(category, i) ==
    data[category][i][2].is_dict /\ ~UrlParseRaises(data[category][i][1])

\* entry i is the first usable entry among those its key differs from only
\* by query string and fragment
FirstOfItsKey(category, i) ==
    \A j \in 1..(i - 1) :
        ~(Usable(category, j)
          /\ DifferOnlyByQueryOrFragment(data[category][j][1], data[category][i][1]))

\* the positions in the candidates of the document titled title
CandidatePositions(category, title) ==
    {n \in 1..Len(Candidates(category)) : Candidates(category)[n].title = title}

\* C6: of the raw documents whose keys differ only by query string or
\* fragment, exactly the first encountered is a candidate, with url
\* rewritten to the key without query and fragment and doc_type set to the
\* category; the later ones are no candidates.
C6_DuplicatesCollapseToFirst ==
    \A c \in CategorySet :
        HasTask(c) =>
            \A i \in 1..Len(data[c]) :
                Usable(c, i) =>
                    IF FirstOfItsKey(c, i)
                    THEN \E n \in 1..Len(Candidates(c)) :
                            /\ CandidatePositions(c, data[c][i][2].title) = {n}
                            /\ Candidates(c)[n].url = Stripped(data[c][i][1])
                            /\ TaskOf(c).urls[n] = Stripped(data[c][i][1])
                            /\ Candidates(c)[n].doc_type = c
                    ELSE CandidatePositions(c, data[c][i][2].title) = {}

\* C6 witness: two mappings whose keys differ only in the query string,
\* deduplicated to the first.
C6_Witness ==
    \E c \in CategorySet :
        /\ HasTask(c)
        /\ Len(data[c]) = 2
        /\ Usable(c, 1) /\ Usable(c, 2)
        /\ DifferOnlyByQueryOrFragment(data[c][1][1], data[c][2][1])
        /\ UrlParse(data[c][1][1]).query # UrlParse(data[c][2][1]).query
        /\ Len(Candidates(c)) = 1
        /\ Candidates(c)[1].title = 1

\* a normalized url has a scheme and neither query string nor fragment
IsCanonical(url) ==
    /\ HasSchemeToken(url)
    /\ \A i \in 1..Len(url) : url[i] \notin {"?", "#"}

\* C7: every deduplication key, and every url written to a candidate, has
\* a scheme and no query or fragment; a key without scheme and the same
\* key behind https:// give one candidate.
C7_KeysHaveSchemeNoQuery ==
    \A c \in CategorySet :
        HasTask(c) =>
            /\ \A n \in 1..Len(Candidates(c)) :
                  IsCanonical(TaskOf(c).urls[n]) /\ IsCanonical(Candidates(c)[n].url)
            /\ \A i, j \in 1..Len(data[c]) :
                  (Usable(c, i) /\ Usable(c, j)
                   /\ UrlParse(data[c][i][1]).scheme = ""
                   /\ data[c][j][1] = <<"https", "://">> \o data[c][i][1])
                      => Len(Candidates(c)) = 1

\* C7, what the code does: no key keeps its query or fragment, and a key
\* that came with a scheme keeps that scheme.
C7_QueryAndFragmentRemoved ==
    \A c \in CategorySet :
        HasTask(c) =>
            \A n \in 1..Len(Candidates(c)) :
                /\ \A i \in 1..Len(TaskOf(c).urls[n]) : TaskOf(c).urls[n][i] \notin {"?", "#"}
                /\ Candidates(c)[n].url = TaskOf(c).urls[n]

\* the raw keys of the scenario of C8
KeyHttpWithQuery == Url("http", "a.com/x", "ref=1", "")

KeyHttps == Url("https", "a.com/x", "", "")

IsSchemeScenario(c) ==
    /\ HasTask(c)
    /\ Len(data[c]) = 2
    /\ data[c][1][1] = KeyHttpWithQuery /\ data[c][2][1] = KeyHttps
    /\ Usable(c, 1) /\ Usable(c, 2)

\* C8 as stated: for the keys http://a.com/x?ref=1 and https://a.com/x one
\* candidate is left, the first, under https://a.com/x; keys that differ in
\* http versus https and in the query string are one document.
C8_SchemesCollapse ==
    \A c \in CategorySet :
        /\ IsSchemeScenario(c) =>
              /\ Len(Candidates(c)) = 1
              /\ Candidates(c)[1].title = 1
              /\ TaskOf(c).urls = <<KeyHttps>>
        /\ HasTask(c) =>
              \A i, j \in 1..Len(data[c]) :
                  (i < j /\ Usable(c, i) /\ Usable(c, j)
                   /\ UrlParse(data[c][i][1]).rest = UrlParse(data[c][j][1]).rest
                   /\ {UrlParse(data[c][i][1]).scheme, UrlParse(data[c][j][1]).scheme}
                         = {"http", "https"})
                      => CandidatePositions(c, data[c][j][2].title) = {}

\* C8 amended: the scheme is part of the key.  The keys http://a.com/x?ref=1
\* and https://a.com/x leave two candidates, http://a.com/x and
\* https://a.com/x; a key is never dropped for an earlier key of another
\* scheme, and each candidate keeps the scheme its key came with.
C8_SchemeIsPartOfKey ==
    \A c \in CategorySet :
        /\ IsSchemeScenario(c) =>
              /\ Len(Candidates(c)) = 2
              /\ TaskOf(c).urls = <<Url("http", "a.com/x", "", ""), KeyHttps>>
              /\ Candidates(c)[1].title = 1 /\ Candidates(c)[2].title = 2
        /\ HasTask(c) =>
              \A j \in 1..Len(data[c]) :
                  (Usable(c, j)
                   /\ \A i \in 1..(j - 1) :
                         Usable(c, i) =>
                             UrlParse(data[c][i][1]).scheme # UrlParse(data[c][j][1]).scheme)
                      => \E n \in 1..Len(Candidates(c)) :
                            /\ Candidates(c)[n].title = data[c][j][2].title
                            /\ UrlParse(TaskOf(c).urls[n]).scheme
                                  = UrlParse(data[c][j][1]).scheme

\* C8 witness: the scenario's two keys, deduplicated to two candidates.
C8_Witness ==
    \E c \in CategorySet :
        /\ IsSchemeScenario(c)
        /\ Len(Candidates(c)) = 2
        /\ Candidates(c)[2].url = KeyHttps

(***************************************************************************)
(* SpecCap: a curation pass over one category holding a few documents or   *)
(* about MaxCurated of them                                                *)
(***************************************************************************)
MaxBigDocs == 35

\* the sizes of the raw category data: small, and around the cap
BatchSizes == {1, 2} \cup ((MaxCurated - 1)..MaxBigDocs)

ScorePatterns == {"tied", "cycle", "rising", "mixed"}

\* the score of document i under a pattern
PatternScore(pattern, i) ==
    CASE pattern = "tied" -> Num(90)
      [] pattern = "cycle" ->
            IF i % 3 = 1 THEN Num(90) ELSE IF i % 3 = 2 THEN Num(39) ELSE Num(50)
      [] pattern = "rising" -> Num(40 + i)
      [] OTHER ->
            IF i % 4 = 1 THEN [kind |-> "str", val |-> 90]
            ELSE IF i % 4 = 2 THEN Missing
            ELSE IF i % 4 = 3 THEN Num(40)
            ELSE [kind |-> "text", val |-> 0]

\* the key of document i; with repeats, document 2 is document 1 again
\* under a query string
KeyOfDocument(i, repeats) ==
    IF repeats /\ i = 2 THEN Url("https", "a.com/1", "ref=1", "")
    ELSE Url("https", "a.com/" \o ToString(i), "", "")

BigData(n, pattern, repeats) ==
    [i \in 1..n |-> <<KeyOfDocument(i, repeats),
                      Document(i, PatternScore(pattern, i), Missing)>>]

InitCap ==
    /\ websocket_manager \in {"none", "attached"}
    /\ \E focus \in CategorySet, n \in BatchSizes, pattern \in ScorePatterns,
          repeats \in BOOLEAN :
          data = [EmptyData EXCEPT ![focus] = BigData(n, pattern, repeats)]
    /\ NoFacts
    /\ InitPass

SpecCap == InitCap /\ [][Next]_vars

\* the positions in the candidates of the documents that pass the threshold
Passing(category) ==
    {i \in 1..Len(Candidates(category)) : IsRelevant(Candidates(category)[i])}

\* candidate j ranks before candidate i: a higher score, or the same score
\* and encountered earlier
RanksBefore(category, j, i) ==
    LET docs == Candidates(category) IN
    \/ docs[j].score.val > docs[i].score.val
    \/ docs[j].score.val = docs[i].score.val /\ j < i

Rank(category, i) ==
    Cardinality({j \in Passing(category) : RanksBefore(category, j, i)}) + 1

\* candidate i as the evaluator annotates it
Annotated(doc) ==
    [doc EXCEPT !.evaluation = [attached |-> TRUE, overall_score |-> doc.score.val]]

\* the category has been through the loop of the pass without an exception
CuratedCleanly(category) ==
    /\ HasKey(doc_counts, category)
    /\ ~FailedInEvaluation(category, {"evaluation_start", "document_kept"})

PassCanStep ==
    \/ pc \in {"idle", "prepare", "reconcile", "report", "except"}
    \/ pc = "category" /\ Len(doc_counts) < Len(curation_tasks)

\* C11: run never propagates an exception of curate_data: a pass that has
\* not returned can take a step, and the state it returns holds
\* employee_count, Company_Count and enrichmentCounts, the latter equal to
\* the snapshot build_enrichment_counts gives for the returned state.
C11_RunReturnsStateWithSnapshot ==
    /\ pc # "done" => PassCanStep
    /\ pc = "done" =>
          /\ {"employee_count", "Company_Count", "enrichmentCounts"} \subseteq stateKeys
          /\ enrichmentCounts =
                build_enrichment_counts(employee_count, Company_Count, data, curated)
                    .enrichment_counts

\* C11 witness: the curation_complete delivery raised after a category was
\* curated, and run returned the state with a snapshot that counts it.
C11_Witness ==
    /\ pc = "done"
    /\ EscapedAt("curation_complete")
    /\ \E c \in CategorySet : curated[c] # <<>> /\ enrichmentCounts[c].enriched = Len(curated[c])
    /\ enrichmentCounts.employeeCount.hasData

(***************************************************************************)
(* SpecJob: the company-fact stage and the curation pass on one state.     *)
(* The analyzer's employee-count step runs before the pass or while the    *)
(* pass is suspended in a delivery.                                        *)
(***************************************************************************)
InitJob ==
    /\ websocket_manager \in {"none", "attached"}
    /\ \E financial \in SmallChoices("financial"), company \in SmallChoices("company") :
          data = [EmptyData EXCEPT !["financial"] = financial, !["company"] = company]
    /\ InitFacts
    /\ InitPass

NextJob ==
    \/ Analyze
    \/ Next

SpecJob == InitJob /\ [][NextJob]_vars

\* the analyzer wrote its latest entry while the pass was suspended
WroteDuringPass == call.fn = "analyze" /\ call.at \in {"prepare", "category"}

\* the entry the analyzer wrote last is in state.employee_count
LatestFactInState ==
    /\ HasKey(employee_count, call.company_url)
    /\ Get(employee_count, call.company_url) = Int0(call.employee_count)

\* C12: an entry of employee_count that the company-fact stage writes
\* while the pass is suspended between snapshot and restore is in
\* employee_count, with the value written, when the pass completes,
\* whether or not employee_count was empty when the pass started.
C12_ConcurrentFactKept ==
    (pc = "done" /\ WroteDuringPass) => LatestFactInState

\* C12, what the code does: the entry is kept when the snapshot of line 258
\* held no employee_count (nothing is restored), and when the pass left
\* through the except clause of run before line 381 (no restore is made).
C12_KeptWhenNothingRestored ==
    (pc = "done" /\ WroteDuringPass
     /\ (preserved_data.employee_count = <<>>
         \/ EscapedAt("category_start") \/ EscapedAt("evaluation_start")))
        => LatestFactInState

(***************************************************************************)
(* SpecKeep: a curation pass, alone, on states whose employee_count holds  *)
(* valid and invalid entries                                               *)
(***************************************************************************)
InitKeep ==
    /\ websocket_manager \in {"none", "attached"}
    /\ \E financial \in SmallChoices("financial"),
          company \in {cd \in CompanyDicts : Len(cd) <= 1} :
          data = [EmptyData EXCEPT !["financial"] = financial, !["company"] = company]
    /\ employee_count \in EmployeeDicts
    /\ Company_Count = Len(employee_count)
    /\ stateKeys = IF employee_count = <<>> THEN {} ELSE {"employee_count", "Company_Count"}
    /\ enrichment_counts = <<>>
    /\ InitPass

SpecKeep == InitKeep /\ [][Next]_vars

\* employee_count as it was when run was called: line 258 copies it before
\* anything else happens
EmployeeCountBefore == preserved_data.employee_count

\* C13: with no other stage interleaved, every entry of employee_count
\* that is an integer in [1, 10000000] before Curator.run is in
\* employee_count with the same key and value after run returns, on the
\* success path and on the error path.
C13_ValidFactsSurviveRun ==
    pc = "done" =>
        \A i \in 1..Len(EmployeeCountBefore) :
            IsValidFact(EmployeeCountBefore[i][2]) =>
                /\ HasKey(employee_count, EmployeeCountBefore[i][1])
                /\ Get(employee_count, EmployeeCountBefore[i][1]) = EmployeeCountBefore[i][2]

\* C13 witness: run returned through its except clause; of the two entries
\* it was called with, the one of 10000000 employees is kept and the
\* invalid one is gone.
C13_Witness ==
    /\ pc = "done"
    /\ \E i \in 1..Len(exceptions) : exceptions[i].escaped
    /\ Len(EmployeeCountBefore) = 2
    /\ \E i \in 1..2 : EmployeeCountBefore[i][2] = Int0(10000000)
    /\ Len(employee_count) = 1
    /\ employee_count[1][2] = Int0(10000000)

(***************************************************************************)
(* The order of the notifications of a pass                                *)
(***************************************************************************)
IsCheckpoint(n) ==
    n.checkpoint \in {"curation_start", "category_start", "document_kept",
                      "curation_complete", "enrichment_update"}

\* the notifications of the five checkpoints, in the order sent
Checkpoints == SelectSeq(sent, IsCheckpoint)

PositionsOf(checkpoint) ==
    {i \in 1..Len(Checkpoints) : Checkpoints[i].checkpoint = checkpoint}

\* the position of the category_start of task n
StartOfTask(n) ==
    CHOOSE i \in PositionsOf("category_start") :
        Checkpoints[i].doc_type = curation_tasks[n].data_field

\* the position that ends the notifications of task n
EndOfTask(n) ==
    IF n < Len(curation_tasks) THEN StartOfTask(n + 1)
    ELSE CHOOSE i \in PositionsOf("curation_complete") : TRUE

\* the titles of the candidates of task n that pass, in encounter order
PassingTitles(n) ==
    LET docs == curation_tasks[n].docs
        Passes(doc) == IsRelevant(doc)
        passing == SelectSeq(docs, Passes)
    IN  [i \in 1..Len(passing) |-> passing[i].title]

\* the pass ran to its end with a channel and without any failure
QuietPass == pc = "done" /\ Attached /\ exceptions = <<>>

\* C14: in a pass with a channel and no failure: first one curation-start
\* with all doc counts zero; then, category by category, one category_start
\* with the initial document count followed by that category's
\* document_kept events; then one curation_complete with the snapshot and
\* the final doc counts; last one enrichment_update with the same snapshot.
C14_NotificationOrder ==
    QuietPass =>
        LET last == Len(Checkpoints) IN
        /\ PositionsOf("curation_start") = {1}
        /\ \A c \in CategorySet : Checkpoints[1].doc_counts[c] = [initial |-> 0, kept |-> 0]
        /\ PositionsOf("curation_complete") = {last - 1}
        /\ PositionsOf("enrichment_update") = {last}
        /\ sent[Len(sent)] = Checkpoints[last]
        /\ Checkpoints[last - 1].enrichmentCounts = enrichmentCounts
        /\ Checkpoints[last].enrichmentCounts = enrichmentCounts
        /\ Checkpoints[last - 1].doc_counts = ReportedDocCounts(doc_counts)
        /\ Cardinality(PositionsOf("category_start")) = Len(curation_tasks)
        /\ \A n \in 1..Len(curation_tasks) :
              LET first == StartOfTask(n)
                  kept == SubSeq(Checkpoints, first + 1, EndOfTask(n) - 1)
              IN  /\ n = 1 => first = 2
                  /\ first < EndOfTask(n)
                  /\ Checkpoints[first].initial_count = Len(curation_tasks[n].docs)
                  /\ [i \in 1..Len(kept) |-> kept[i].title] = PassingTitles(n)
                  /\ \A i \in 1..Len(kept) :
                        /\ kept[i].checkpoint = "document_kept"
                        /\ kept[i].doc_type = curation_tasks[n].data_field

\* C14 witness: a pass over two categories with raw data in which a
\* document was kept and one was dropped.
C14_Witness ==
    /\ QuietPass
    /\ Len(curation_tasks) >= 2
    /\ PositionsOf("document_kept") # {}
    /\ \E n \in 1..Len(curation_tasks) :
          Len(PassingTitles(n)) < Len(curation_tasks[n].docs)

(***************************************************************************)
(* Delivery failures                                                       *)
(***************************************************************************)
\* what a pass without a channel stores for a category of the raw data
CleanCurated(category) ==
    LET tasks == PrepareTasks(data, 1, <<>>).curation_tasks
        mine == {n \in 1..Len(tasks) : tasks[n].data_field = category}
    IN  IF mine = {} THEN <<>>
        ELSE LET task == tasks[CHOOSE n \in mine : TRUE]
                 evaluated_docs == evaluate_documents(task.docs, FALSE, FALSE, 0).docs
             IN  IF evaluated_docs = <<>> THEN <<>>
                 ELSE RelevantDocs(task.urls, evaluated_docs)

\* the final state is that of a pass in which every delivery succeeded
SameAsCleanPass ==
    /\ \A c \in CategorySet :
          /\ curated[c] = CleanCurated(c)
          /\ data[c] # <<>> =>
                /\ HasKey(doc_counts, c)
                /\ Get(doc_counts, c).kept = Len(CleanCurated(c))
    /\ \A c \in CategorySet : enrichmentCounts[c].enriched = Len(CleanCurated(c))

\* C15: a delivery exception at any checkpoint is caught at its call site
\* and not propagated: the pass curates every category, and its curated
\* sets, doc counts and snapshot are those of a pass whose deliveries all
\* succeeded.
C15_DeliveryFailuresCaught ==
    (pc = "done" /\ exceptions # <<>>) =>
        /\ \A i \in 1..Len(exceptions) : ~exceptions[i].escaped
        /\ SameAsCleanPass

\* C15, what the code does: only the enrichment_update delivery is caught
\* at its call site (lines 200-214); a pass that failed nowhere else ends
\* as a pass without failure does.
C15_EnrichmentUpdateCaught ==
    (pc = "done"
     /\ \A i \in 1..Len(exceptions) : exceptions[i].at = "enrichment_update")
        => SameAsCleanPass

(***************************************************************************)
(* Curator.evaluate_documents: one bad document                            *)
(***************************************************************************)
\* document i of the batch is one whose handling fails: its score does not
\* parse, it is no mapping, or its document_kept delivery raises
HandlingFails(i) ==
    \/ ~call.docs[i].is_dict
    \/ ~IsNumericScore(call.docs[i])
    \/ call.failKept = i /\ websocket_manager = "attached"

\* C16: within one call of evaluate_documents a failure while handling one
\* document costs at most that document: every other document whose score
\* is numeric and >= 0.4 is in the returned list.
C16_FailureCostsOneDocument ==
    call.status = "returned" =>
        \A i \in 1..Len(call.docs) :
            (IsNumericScore(call.docs[i]) /\ call.docs[i].score.val >= 40
             /\ ~HandlingFails(i))
                => InOutput(call.docs[i])

\* C16, what the code does: a score that does not parse costs only its
\* document (the except of lines 73-75).
C16_BadScoreCostsOneDocument ==
    (call.status = "returned" /\ AllMappings(call.docs)
     /\ ~(websocket_manager = "attached" /\ call.failKept > 0))
        => \A i \in 1..Len(call.docs) :
              (IsNumericScore(call.docs[i]) /\ call.docs[i].score.val >= 40)
                  => InOutput(call.docs[i])

(***************************************************************************)
(* SpecRepeat: research stages rewrite raw category data between curation  *)
(* passes on the same state                                                *)
(***************************************************************************)
MaxPasses == 2

MaxWrites == 1

\* the raw data a research stage may leave: IndustryAnalyzer.analyze may
\* find nothing; CompanyAnalyzer.analyze always writes the company entry
ResearchChoices(category) ==
    IF category = "company" THEN SmallChoices(category) \ {<<>>}
    ELSE SmallChoices(category)

\* state['industry_data'] = industry_data, state['company_data'] = company_data
Research_Write ==
    /\ pc = "done"
    /\ call.writes < MaxWrites
    /\ \E category \in {"industry", "company"} :
          \E found \in ResearchChoices(category) :
              data' = [data EXCEPT ![category] = found]
    /\ call' = [call EXCEPT !.writes = @ + 1]
    /\ UNCHANGED <<websocket_manager, curated, employee_count, Company_Count, stateKeys,
                   enrichment_counts, enrichmentCounts, passVars>>

\* Curator.run is called again on the state
Run_Again ==
    /\ pc = "done"
    /\ call.passes < MaxPasses
    /\ pc' = "idle"
    /\ preserved_data' = NoPreserved
    /\ curation_tasks' = <<>>
    /\ doc_counts' = <<>>
    /\ exceptions' = <<>>
    /\ call' = [call EXCEPT !.passes = @ + 1]
    /\ UNCHANGED <<stateVars, sent>>

InitRepeat ==
    /\ websocket_manager \in {"none", "attached"}
    /\ \E industry \in SmallChoices("industry") :
          data = [EmptyData EXCEPT !["industry"] = industry]
    /\ NoFacts
    /\ PassIsIdle
    /\ curated = EmptyData
    /\ enrichmentCounts = NoSnapshot
    /\ call = [fn |-> "job", passes |-> 1, writes |-> 0]

NextRepeat ==
    \/ Research_Write
    \/ Run_Again
    \/ Next

SpecRepeat == InitRepeat /\ [][NextRepeat]_vars

\* the snapshot in state counts no more curated than raw documents
EnrichedWithinTotal ==
    "enrichmentCounts" \in stateKeys =>
        \A c \in CategorySet : enrichmentCounts[c].enriched <= enrichmentCounts[c].total

\* C17: in every snapshot build_enrichment_counts builds, after any
\* sequence of research-stage writes and curation passes, each of company,
\* industry, financial and news has enriched <= total.
C17_EnrichedAtMostTotal == EnrichedWithinTotal

\* C17, what the code does: the snapshots of the first pass over a state
\* without curated sets satisfy it.
C17_FirstPassEnrichedAtMostTotal ==
    (call.passes = 1 /\ call.writes = 0) => EnrichedWithinTotal

(***************************************************************************)
(* The employeeCount section of a snapshot                                 *)
(***************************************************************************)
\* the sum of the values of the first n entries of d
RECURSIVE SumUpTo(_, _)
SumUpTo(d, n) == IF n = 0 THEN 0 ELSE d[n][2].val + SumUpTo(d, n - 1)

\* the employeeCount section of the snapshot the latest call returned
LatestSection == call.returned[call.n].employeeCount

\* C18: in every snapshot of build_enrichment_counts the employeeCount
\* section has total = 1, data = the validated mapping written to
\* state.employee_count, enriched = totalCount = the sum of the values of
\* data, validCounts = the number of entries of data, and hasData exactly
\* when validCounts > 0 and totalCount > 0.
C18_EmployeeSectionConsistent ==
    call.n >= 1 =>
        LET section == LatestSection IN
        /\ section.total = 1
        /\ section.data = employee_count
        /\ \A i \in 1..Len(section.data) : IsValidFact(section.data[i][2])
        /\ section.enriched = SumUpTo(section.data, Len(section.data))
        /\ section.totalCount = section.enriched
        /\ section.validCounts = Len(section.data)
        /\ section.hasData <=> (section.validCounts > 0 /\ section.totalCount > 0)

\* C18 witness: a snapshot over two validated entries, one of them
\* truncated from 12.7.
C18_Witness ==
    /\ call.n >= 1
    /\ LatestSection.validCounts = 2
    /\ LatestSection.hasData
    /\ \E i \in 1..2 : LatestSection.data[i][2] = Int0(12)
    /\ LatestSection.enriched > 12

(***************************************************************************)
(* The shape of the enrichmentCounts payloads                              *)
(***************************************************************************)
SnapshotSections == {"company", "employeeCount", "industry", "financial", "news"}

EmployeeSectionFields ==
    {"enriched", "total", "data", "hasData", "totalCount", "validCounts"}

\* a payload of the curator, a record: it has the stable shape
RecordHasSnapshotShape(payload) ==
    /\ DOMAIN payload = SnapshotSections
    /\ DOMAIN payload.employeeCount = EmployeeSectionFields
    /\ payload.employeeCount.total = 1

\* a payload of the company analyzer, a dict: it has the stable shape
DictHasSnapshotShape(payload) ==
    /\ Range(Keys(payload)) = SnapshotSections
    /\ DOMAIN Get(payload, "employeeCount") = EmployeeSectionFields
    /\ Get(payload, "employeeCount").total = 1

\* C19: every enrichmentCounts payload pushed to the channel or stored in
\* state, by the company-fact stage (employee_count_ready,
\* enrichment_counts_updated) and by the curator (curation_complete,
\* enrichment_update), has an entry for each of company, employeeCount,
\* industry, financial and news, and an employeeCount entry with enriched,
\* total = 1, data, hasData, totalCount and validCounts.
C19_PayloadsHaveSnapshotShape ==
    /\ \A i \in 1..Len(sent) :
          /\ sent[i].checkpoint \in {"employee_count_ready", "enrichment_counts_updated"}
                => DictHasSnapshotShape(sent[i].enrichmentCounts)
          /\ sent[i].checkpoint \in {"curation_complete", "enrichment_update"}
                => RecordHasSnapshotShape(sent[i].enrichmentCounts)
    /\ "enrichmentCounts" \in stateKeys => RecordHasSnapshotShape(enrichmentCounts)
    /\ enrichment_counts # <<>> => DictHasSnapshotShape(enrichment_counts)

\* C19, what the code does: the payloads of the curator, pushed and
\* stored, have the shape.
C19_CuratorPayloadsHaveSnapshotShape ==
    /\ \A i \in 1..Len(sent) :
          sent[i].checkpoint \in {"curation_complete", "enrichment_update"}
              => RecordHasSnapshotShape(sent[i].enrichmentCounts)
    /\ "enrichmentCounts" \in stateKeys => RecordHasSnapshotShape(enrichmentCounts)

(***************************************************************************)
(* The enriched counts over the snapshots emitted for one job              *)
(***************************************************************************)
FromAnalyzer == {"employee_count_ready", "enrichment_counts_updated"}

FromCurator == {"curation_complete", "enrichment_update"}

\* the positions in sent of the notifications that carry a snapshot
SnapshotPositions ==
    {i \in 1..Len(sent) : sent[i].checkpoint \in FromAnalyzer \cup FromCurator}

\* the notification reports the section
Reports(n, section) ==
    IF n.checkpoint \in FromAnalyzer
    THEN HasKey(n.enrichmentCounts, section)
    ELSE TRUE

\* the enriched count the notification reports for the section
EnrichedOf(n, section) ==
    IF n.checkpoint \in FromAnalyzer
    THEN Get(n.enrichmentCounts, section).enriched
    ELSE n.enrichmentCounts[section].enriched

NeverDecreases(positions) ==
    \A i \in positions : \A j \in positions : \A section \in SnapshotSections :
        (i < j /\ Reports(sent[i], section) /\ Reports(sent[j], section))
            => EnrichedOf(sent[i], section) <= EnrichedOf(sent[j], section)

\* C20: over the snapshots emitted for one job, those of the company-fact
\* stage followed by those of the curation pass, no enriched count
\* decreases from one emitted snapshot to the next.
C20_EnrichedNeverDecreases == NeverDecreases(SnapshotPositions)

\* C20, what the code does: the snapshots the curation pass emits itself
\* never decrease among themselves.
C20_CuratorEnrichedNeverDecreases ==
    NeverDecreases({i \in SnapshotPositions : sent[i].checkpoint \in FromCurator})

(***************************************************************************)
(* The fallback value of the employee-count fact                           *)
(***************************************************************************)
\* the analyzer has run and the pass has not restored the facts since
JustAnalyzed == call.fn = "analyze" /\ pc \in {"idle", "prepare", "category"}

\* the employee-count step obtained a count in the range: nothing raised
\* and the answer has a number between 1 and 10,000,000
ObtainedValidCount ==
    /\ ~call.raised
    /\ ~call.response.raised
    /\ FirstNumber(call.response.text) # <<>>
    /\ InEmployeeRange(ParseInt(FirstNumber(call.response.text)))

StoredForCompany == Get(employee_count, call.company_url)

\* C21: whenever the company-fact stage cannot obtain a valid count (no
\* digits in the answer, a number out of range, a failed LLM call, or any
\* error during the employee-count step of analyze), the value it stores in
\* state.employee_count for the company is exactly 1.
C21_OnlyFallbackIsOne ==
    (JustAnalyzed /\ ~ObtainedValidCount) => StoredForCompany = Int0(1)

\* C21, what the code does: the stored value is 1 when the answer has no
\* digits, is out of range or the LLM call fails; an error raised in the
\* step itself stores 100.
C21_FallbackIsOneUnlessStepRaises ==
    /\ (JustAnalyzed /\ ~ObtainedValidCount /\ ~call.raised) => StoredForCompany = Int0(1)
    /\ (JustAnalyzed /\ call.raised) => StoredForCompany = Int0(FallbackEmployees)

(***************************************************************************)
(* SpecStored: a job whose state starts without employee facts; the        *)
(* company analyzer and the curator run on it, each up to MaxStageRuns     *)
(* times, in any order                                                     *)
(***************************************************************************)
MaxStageRuns == 2

\* the company documents of the job: none, or one whose employee_count
\* sub-field is 1200, 10000001 or 12.7
StoredCompanyChoices ==
    {<<>>} \cup {<<<<KeyAcmeUrl, Document(1, Num(90), v)>>>> :
                    v \in {Int0(1200), Int0(10000001), [kind |-> "float", val |-> 127]}}

InitStored ==
    /\ websocket_manager \in {"none", "attached"}
    /\ \E company \in StoredCompanyChoices :
          data = [EmptyData EXCEPT !["company"] = company]
    /\ stateKeys \in {{}, {"employee_count"}}
    /\ employee_count = <<>>
    /\ Company_Count = 0
    /\ enrichment_counts = <<>>
    /\ PassIsIdle
    /\ curated = EmptyData
    /\ enrichmentCounts = NoSnapshot
    /\ call = [fn |-> "stages", analyses |-> 0, passes |-> 1]

\* CompanyAnalyzer.analyze runs, before a pass or while one is suspended;
\* the deliveries of the two update methods, whose failures are caught and
\* change nothing in state, succeed
Analyze_Stage ==
    /\ pc = "idle" \/ PassSuspended
    /\ call.analyses < MaxStageRuns
    /\ \E company_url \in CompanyUrls, response \in AnalyzerResponses,
          failLoading \in DeliveryRaises :
          EmployeeCountStep(company_url, response, failLoading, FALSE, FALSE)
    /\ call' = [call EXCEPT !.analyses = @ + 1]

\* Curator.run is called again on the state; the log of the channel is
\* kept for the current pass only
Run_Stage ==
    /\ pc = "done"
    /\ call.passes < MaxStageRuns
    /\ pc' = "idle"
    /\ preserved_data' = NoPreserved
    /\ curation_tasks' = <<>>
    /\ doc_counts' = <<>>
    /\ exceptions' = <<>>
    /\ sent' = <<>>
    /\ call' = [call EXCEPT !.passes = @ + 1]
    /\ UNCHANGED stateVars

NextStored ==
    \/ Analyze_Stage
    \/ Run_Stage
    \/ Next

SpecStored == InitStored /\ [][NextStored]_vars

\* C22: starting from a state whose employee_count is absent or empty,
\* after any sequence of company-fact stage runs and curation passes every
\* value stored in state.employee_count is an integer in [1, 10,000,000].
C22_StoredFactsInRange ==
    \A i \in 1..Len(employee_count) : IsValidFact(employee_count[i][2])

\* the analyzer stored a fallback, a pass recovered a fact from a company
\* document, and two facts are in state
C22_Witness ==
    /\ call.analyses = MaxStageRuns /\ call.passes = MaxStageRuns /\ pc = "done"
    /\ Len(employee_count) = 2
    /\ \E i \in 1..2 : employee_count[i][2] = Int0(1)

(***************************************************************************)
(* The key a curated document is stored under                              *)
(***************************************************************************)
\* every document of the curated set of the category is under its own URL
KeptUnderOwnKey(category) ==
    \A i \in 1..Len(curated[category]) :
        curated[category][i][2].url = curated[category][i][1]

\* the evaluator returns the documents of the category as they came: each
\* passes the threshold and no score is above an earlier one
EvaluatorKeepsOrder(category) ==
    LET raw == data[category] IN
    /\ \A i \in 1..Len(raw) : IsNumericScore(raw[i][2]) /\ raw[i][2].score.val >= 40
    /\ \A i \in 1..Len(raw) : \A j \in 1..Len(raw) :
          i < j => raw[i][2].score.val >= raw[j][2].score.val

\* C23: every entry (k, d) of a stored curated_<category>_data mapping
\* satisfies d.url = k, also when the evaluator dropped a below-threshold
\* document from the middle of the batch or reordered documents by score.
C23_DocumentsUnderOwnKey == \A category \in CategorySet : KeptUnderOwnKey(category)

\* C23, what the code does: the documents are under their own keys when
\* the evaluator neither drops nor reorders a document of the category.
C23_OwnKeyWhenOrderKept ==
    \A category \in CategorySet :
        EvaluatorKeepsOrder(category) => KeptUnderOwnKey(category)

(***************************************************************************)
(* The curated sets after a pass                                           *)
(***************************************************************************)
\* curate_data returned: no exception escaped it
PassReturned == pc = "done" /\ \A i \in 1..Len(exceptions) : ~exceptions[i].escaped

\* the kept count of the pass for the category, 0 when it was skipped
KeptInPass(category) == ReportedDocCounts(doc_counts)[category].kept

CuratedIsResultOfPass ==
    PassReturned =>
        \A category \in CategorySet :
            /\ Len(curated[category]) = KeptInPass(category)
            /\ enrichmentCounts[category].enriched = KeptInPass(category)

\* C24: after a curation pass completes, curated_<category>_data is the
\* result of that pass for every category: with empty raw data or no
\* passing document state holds no curated documents for it, a mapping left
\* by an earlier pass is not kept, and the snapshot's enriched count equals
\* the kept count of the pass.
C24_CuratedIsResultOfPass == CuratedIsResultOfPass

\* C24, what the code does: it holds for the first pass over a state
\* without curated sets.
C24_FirstPassCuratedIsResult == call.passes = 1 => CuratedIsResultOfPass

(***************************************************************************)
(* SpecPass: a job with financial documents, with or without an employee  *)
(* fact, where a pass that can take a step eventually takes one: every     *)
(* collaborator call returns or raises                                     *)
(***************************************************************************)
InitPassJob ==
    /\ websocket_manager \in {"none", "attached"}
    /\ \E financial \in SmallChoices("financial") :
          data = [EmptyData EXCEPT !["financial"] = financial]
    /\ InitFacts
    /\ InitPass

\* Weak fairness of the pass, WF_vars(Next), with ENABLED <<Next>>_vars
\* written out: a pass that has not returned can take a step
PassIsFair == []<>(pc = "done") \/ []<><<Next>>_vars

SpecPass == InitPassJob /\ [][NextJob]_vars /\ PassIsFair

\* the positions of curate_data and run, and the steps between them: idle,
\* curating (prepare, category), reconciling, reporting, done; except is
\* the except clause of run
LifecycleSteps ==
    {<<"idle", "prepare">>, <<"prepare", "category">>, <<"prepare", "reconcile">>,
     <<"category", "reconcile">>, <<"reconcile", "report">>, <<"report", "done">>,
     <<"idle", "except">>, <<"category", "except">>, <<"report", "except">>,
     <<"except", "done">>}

FollowsLifecycle == pc' # pc => <<pc, pc'>> \in LifecycleSteps

AnExceptionEscaped == \E i \in 1..Len(exceptions) : exceptions[i].escaped

CompleteEmitted == \E i \in 1..Len(sent) : sent[i].checkpoint = "curation_complete"

\* every category with raw data has been handled and its curated set stored
AllCategoriesStored ==
    /\ Len(doc_counts) = Len(curation_tasks)
    /\ \A n \in 1..Len(curation_tasks) : HasKey(doc_counts, curation_tasks[n].data_field)

\* the snapshot in state counts the employee facts the restore put back
SnapshotOfRestoredFacts ==
    /\ "enrichmentCounts" \in stateKeys
    /\ enrichmentCounts.employeeCount.data = employee_count
    /\ (preserved_data.employee_count # <<>>
        /\ \A i \in 1..Len(preserved_data.employee_count) :
              IsValidFact(preserved_data.employee_count[i][2]))
          => enrichmentCounts.employeeCount.data = preserved_data.employee_count

\* the order of the success path and the shape of the exception path
LifecycleOrder ==
    /\ pc \in {"reconcile", "report"} => AllCategoriesStored /\ ~AnExceptionEscaped
    /\ pc = "report" => SnapshotOfRestoredFacts
    /\ CompleteEmitted =>
          /\ pc = "done" /\ ~AnExceptionEscaped
          /\ SnapshotOfRestoredFacts
          /\ \A i \in 1..Len(sent) :
                sent[i].checkpoint = "curation_complete"
                    => sent[i].enrichmentCounts = enrichmentCounts
    /\ AnExceptionEscaped => pc \in {"except", "done"} /\ ~CompleteEmitted
    /\ pc = "done" => "enrichmentCounts" \in stateKeys

\* C25: every pass follows idle -> curating -> reconciling -> reporting ->
\* done and, when each collaborator call returns or raises, eventually
\* reaches done; on the success path the employee facts are restored after
\* the last category's curated set is stored and before the snapshot is
\* built, and the snapshot is attached to state before curation_complete is
\* emitted; on an exception the pass goes straight to done with a snapshot
\* attached and without emitting curation_complete.
C25_PassLifecycle ==
    /\ [][FollowsLifecycle]_vars
    /\ []LifecycleOrder
    /\ <>(pc = "done")

\* C25 witness: the analyzer wrote a new fact while the pass was suspended,
\* the pass restored the fact it had preserved, built the snapshot from it
\* and emitted curation_complete.
C25_Witness ==
    /\ pc = "done" /\ CompleteEmitted
    /\ WroteDuringPass
    /\ preserved_data.employee_count # <<>>
    /\ employee_count = preserved_data.employee_count
    /\ Int0(call.employee_count) # employee_count[1][2]
    /\ enrichmentCounts.employeeCount.data = preserved_data.employee_count

(***************************************************************************)
(* The recovery path of Enrichment Accounting                              *)
(***************************************************************************)
\* a value that passes validation: numeric, and an integer of the range
\* once truncated
PassesValidation(v) ==
    v.kind \in {"int", "float", "bool"} /\ Truncated(v) \in 1..10000000

\* the entries of state.employee_count that pass validation, each with its
\* value as an integer
ValidStateEntries(mapping) ==
    LET kept == SelectSeq(mapping, LAMBDA entry : PassesValidation(entry[2]))
    IN  [i \in 1..Len(kept) |-> <<kept[i][1], Int0(Truncated(kept[i][2]))>>]

\* the keys of company_data whose document has an employee_count sub-field
\* that passes validation, each with that value as an integer
ValidSubFields(company_data) ==
    LET kept == SelectSeq(company_data,
                          LAMBDA entry : PassesValidation(entry[2].employee_count))
    IN  [i \in 1..Len(kept) |->
            <<kept[i][1], Int0(Truncated(kept[i][2].employee_count))>>]

\* C26: Enrichment Accounting takes the recovery path exactly when no entry
\* of state.employee_count passes validation and company_data is non-empty;
\* it then sets state.employee_count to the mapping from each company_data
\* key to that document's employee_count sub-field, restricted to the
\* values that are numeric and in [1, 10,000,000], and Company_Count to its
\* size; when at least one state entry is valid, company_data is not
\* consulted.
C26_RecoveryPath ==
    call.n >= 1 =>
        LET valid_in_state == ValidStateEntries(call.before)
            first == call.after[1]
        IN  /\ call.recovered <=> (valid_in_state = <<>> /\ data["company"] # <<>>)
            /\ call.recovered =>
                  /\ first.employee_count = ValidSubFields(data["company"])
                  /\ first.Company_Count = Len(first.employee_count)
            /\ valid_in_state # <<>> => first.employee_count = valid_in_state

\* C26 witnesses: the state held only an entry out of range and the fact
\* was recovered from a company document; the state held a valid entry and
\* a company document with another count was left aside.
C26_Witness ==
    /\ call.n = 1 /\ call.recovered
    /\ call.before # <<>>
    /\ employee_count = <<<<KeyAcmeUrl, Int0(1200)>>>>
    /\ Company_Count = 1

C26_WitnessNotConsulted ==
    /\ call.n = 1 /\ ~call.recovered
    /\ employee_count = <<<<KeyAcme, Int0(10000000)>>>>
    /\ \E i \in 1..Len(data["company"]) :
          data["company"][i][2].employee_count = Int0(1200)

====
